---- MODULE Spec2Model ----
(***************************************************************************)
(* State-machine model of src/src/App.tsx (third revision of the           *)
(* component, lines 1307-2431): the post-generation pipeline with its      *)
(* tolerant response parsing, website extraction, and project handling.    *)
(*                                                                         *)
(* Strings are sequences of lexical tokens (each token a run of            *)
(* characters), so JSON.parse, String.prototype.match and .length are      *)
(* computed on the text and are not identities.                            *)
(***************************************************************************)
EXTENDS Integers, Sequences, FiniteSets, TLC

(***************************************************************************)
(* JavaScript values.  Every value is a record of the same shape:          *)
(*   t  the type tag, n  the number (or boolean 0/1, or array length),     *)
(*   s  the characters of a string, m  the members of an object, as a      *)
(*   sequence of <<key, value>> pairs in source order.                     *)
(***************************************************************************)
JsUndefined == [t |-> "undefined", n |-> 0, s |-> <<>>, m |-> <<>>]
JsNull == [t |-> "null", n |-> 0, s |-> <<>>, m |-> <<>>]
JsBool(b) == [t |-> "bool", n |-> IF b THEN 1 ELSE 0, s |-> <<>>, m |-> <<>>]
JsNum(k) == [t |-> "num", n |-> k, s |-> <<>>, m |-> <<>>]
JsStr(chars) == [t |-> "str", n |-> 0, s |-> chars, m |-> <<>>]
JsArr(len) == [t |-> "arr", n |-> len, s |-> <<>>, m |-> <<>>]
JsObj(members) == [t |-> "obj", n |-> 0, s |-> <<>>, m |-> members]

\* ToBoolean, as used by the || operator.
Truthy(v) ==
  CASE v.t = "undefined" -> FALSE
    [] v.t = "null" -> FALSE
    [] v.t = "bool" -> v.n = 1
    [] v.t = "num" -> v.n # 0
    [] v.t = "str" -> v.s # <<>>
    [] OTHER -> TRUE

\* a ?? b in place of a || b: only null and undefined give way to b
JsNullish(a, b) == IF a.t \in {"null", "undefined"} THEN b ELSE a

\* a || b
JsOr(a, b) == IF Truthy(a) THEN a ELSE b

\* Reading a property of null or undefined throws a TypeError.
PropThrows(v) == v.t \in {"null", "undefined"}

RECURSIVE LastMember(_, _, _)
LastMember(members, key, i) ==
  IF i = 0 THEN JsUndefined
  ELSE IF members[i][1] = key THEN members[i][2]
  ELSE LastMember(members, key, i - 1)

\* v.key for a v that is neither null nor undefined: an own member of an
\* object (JSON.parse keeps the last of duplicate keys), undefined otherwise.
GetProp(v, key) ==
  IF v.t = "obj" THEN LastMember(v.m, key, Len(v.m)) ELSE JsUndefined

(***************************************************************************)
(* Tokens.  UnitLen is the number of UTF-16 code units of a token, which   *)
(* is what String.prototype.length counts.                                 *)
(***************************************************************************)
\* The three-backtick code fence, written as one token.
Fence == "<fence>"
JsonTag == "json"
Space == " "
Newline == "\n"
KeyContent == "\"content\""
KeyReasoning == "\"reasoning\""
LitHi == "\"Launching Acme!\""
LitWhy == "\"Short punchy hook\""
LitEmpty == "\"\""
LitAlt == "\"Acme is live\""

IsWs(tok) == tok \in {Space, Newline}

\* String.prototype.trim on a token sequence
RECURSIVE TrimStart(_)
TrimStart(str) ==
  IF str # <<>> /\ IsWs(Head(str)) THEN TrimStart(Tail(str)) ELSE str

RECURSIVE TrimEnd(_)
TrimEnd(str) ==
  IF str # <<>> /\ IsWs(str[Len(str)])
  THEN TrimEnd(SubSeq(str, 1, Len(str) - 1))
  ELSE str

Trim(str) == TrimEnd(TrimStart(str))

UnitLen(tok) ==
  CASE tok = Fence -> 3
    [] tok = JsonTag -> 4
    [] tok = Space -> 1
    [] tok = Newline -> 1
    [] tok \in {"{", "}", "[", "]", ":", ","} -> 1
    [] tok = KeyContent -> 9
    [] tok = KeyReasoning -> 11
    [] tok = LitHi -> 17
    [] tok = LitWhy -> 19
    [] tok = LitEmpty -> 2
    [] tok = LitAlt -> 14
    [] tok = "Acme is live" -> 12
    [] tok = "Launching Acme!" -> 15
    [] tok = "Short punchy hook" -> 17
    [] tok = "content" -> 7
    [] tok = "reasoning" -> 9
    [] tok = "null" -> 4
    [] tok = "true" -> 4
    [] tok = "false" -> 5
    [] tok = "42" -> 2
    [] tok = "0" -> 1
    [] tok = "oops" -> 4
    [] tok = "js" -> 2
    [] tok = "Just buy our widgets" -> 20
    [] tok = "Generated using AI optimization strategies" -> 42
    [] OTHER -> 1

RECURSIVE StrLen(_)
StrLen(chars) ==
  IF chars = <<>> THEN 0 ELSE UnitLen(Head(chars)) + StrLen(Tail(chars))

\* v.length: the code units of a string, the element count of an array,
\* undefined on anything else that has no such property.
JsLength(v) ==
  CASE v.t = "str" -> JsNum(StrLen(v.s))
    [] v.t = "arr" -> JsNum(v.n)
    [] OTHER -> JsUndefined

(***************************************************************************)
(* JSON.parse over tokens.  Whitespace between tokens is insignificant.    *)
(* A parse result is [ok, v, next]: next is the index after the value.     *)
(***************************************************************************)
StringLiterals == {KeyContent, KeyReasoning, LitHi, LitWhy, LitEmpty, LitAlt}

\* The characters a string literal denotes (the literal without its quotes).
LiteralChars(tok) ==
  CASE tok = KeyContent -> <<"content">>
    [] tok = KeyReasoning -> <<"reasoning">>
    [] tok = LitHi -> <<"Launching Acme!">>
    [] tok = LitWhy -> <<"Short punchy hook">>
    [] tok = LitAlt -> <<"Acme is live">>
    [] OTHER -> <<>>

NumberLiterals == {"42", "0"}

NumberValue(tok) == IF tok = "42" THEN 42 ELSE 0

ParseFail == [ok |-> FALSE, v |-> JsUndefined, next |-> 0]

ParseOk(v, next) == [ok |-> TRUE, v |-> v, next |-> next]

RECURSIVE ParseValue(_, _)
RECURSIVE ParseMembers(_, _, _)
RECURSIVE ParseElements(_, _, _)

\* members after the opening brace or after a comma: "key" : value , ... }
ParseMembers(toks, i, acc) ==
  IF i + 2 > Len(toks) \/ toks[i] \notin StringLiterals \/ toks[i + 1] # ":"
  THEN ParseFail
  ELSE LET r == ParseValue(toks, i + 2) IN
    IF ~r.ok \/ r.next > Len(toks) THEN ParseFail
    ELSE LET acc2 == Append(acc, <<LiteralChars(toks[i]), r.v>>) IN
      CASE toks[r.next] = "}" -> ParseOk(JsObj(acc2), r.next + 1)
        [] toks[r.next] = "," -> ParseMembers(toks, r.next + 1, acc2)
        [] OTHER -> ParseFail

\* elements after the opening bracket or after a comma: value , ... ]
ParseElements(toks, i, count) ==
  LET r == ParseValue(toks, i) IN
    IF ~r.ok \/ r.next > Len(toks) THEN ParseFail
    ELSE CASE toks[r.next] = "]" -> ParseOk(JsArr(count + 1), r.next + 1)
           [] toks[r.next] = "," -> ParseElements(toks, r.next + 1, count + 1)
           [] OTHER -> ParseFail

ParseValue(toks, i) ==
  IF i > Len(toks) THEN ParseFail
  ELSE LET tok == toks[i] IN
    CASE tok = "null" -> ParseOk(JsNull, i + 1)
      [] tok = "true" -> ParseOk(JsBool(TRUE), i + 1)
      [] tok = "false" -> ParseOk(JsBool(FALSE), i + 1)
      [] tok \in NumberLiterals -> ParseOk(JsNum(NumberValue(tok)), i + 1)
      [] tok \in StringLiterals -> ParseOk(JsStr(LiteralChars(tok)), i + 1)
      [] tok = "{" ->
           IF i + 1 <= Len(toks) /\ toks[i + 1] = "}"
           THEN ParseOk(JsObj(<<>>), i + 2)
           ELSE ParseMembers(toks, i + 1, <<>>)
      [] tok = "[" ->
           IF i + 1 <= Len(toks) /\ toks[i + 1] = "]"
           THEN ParseOk(JsArr(0), i + 2)
           ELSE ParseElements(toks, i + 1, 0)
      [] OTHER -> ParseFail

NotWs(tok) == ~IsWs(tok)

\* JSON.parse(text): [ok |-> FALSE] stands for the SyntaxError it throws.
JSONParse(text) ==
  LET toks == SelectSeq(text, NotWs)
      r == ParseValue(toks, 1)
  IN IF r.ok /\ r.next = Len(toks) + 1 THEN r ELSE ParseFail

(***************************************************************************)
(* text.match(/<fence>(?:json)?\s*({[\s\S]*?})\s*<fence>/): the leftmost   *)
(* match, its body the shortest one that lets the rest of the pattern      *)
(* match.  The result is [found, capture]: capture is group 1.             *)
(***************************************************************************)
RECURSIVE SkipWs(_, _)
\* \s*: the first index from j on that holds no whitespace
SkipWs(text, j) ==
  IF j <= Len(text) /\ IsWs(text[j]) THEN SkipWs(text, j + 1) ELSE j

\* }\s*<fence> matches at e
ClosesAt(text, e) ==
  /\ e <= Len(text)
  /\ text[e] = "}"
  /\ LET f == SkipWs(text, e + 1) IN f <= Len(text) /\ text[f] = Fence

RECURSIVE LastClose(_, _)
\* [\s\S]*} in place of [\s\S]*?} : the last closing brace from e on that
\* the rest matches after
LastClose(text, e) ==
  IF e > Len(text) THEN 0
  ELSE LET later == LastClose(text, e + 1) IN
    IF later # 0 THEN later
    ELSE IF ClosesAt(text, e) THEN e
    ELSE 0

RECURSIVE FirstClose(_, _)
\* [\s\S]*?} : the first closing brace from e on that the rest matches after;
\* 0 when there is none
FirstClose(text, e) ==
  IF e > Len(text) THEN 0
  ELSE IF ClosesAt(text, e) THEN e
  ELSE FirstClose(text, e + 1)

NoMatch == [found |-> FALSE, capture |-> <<>>]

\* the pattern anchored at index i
MatchAt(text, i) ==
  IF text[i] # Fence THEN NoMatch
  ELSE LET j == IF i + 1 <= Len(text) /\ text[i + 1] = JsonTag THEN i + 2 ELSE i + 1
           k == SkipWs(text, j)
       IN IF k > Len(text) \/ text[k] # "{" THEN NoMatch
          ELSE LET e == FirstClose(text, k + 1) IN
            IF e = 0 THEN NoMatch
            ELSE [found |-> TRUE, capture |-> SubSeq(text, k, e)]

RECURSIVE MatchFrom(_, _)
MatchFrom(text, i) ==
  IF i > Len(text) THEN NoMatch
  ELSE LET m == MatchAt(text, i) IN
    IF m.found THEN m ELSE MatchFrom(text, i + 1)

FenceMatch(text) == MatchFrom(text, 1)

(***************************************************************************)
(* The response handling of generatePosts (lines 1720-1759): what is       *)
(* pushed on posts for one AI response text.  [escaped |-> TRUE] stands    *)
(* for an exception leaving the statement, which the enclosing try of      *)
(* generatePosts (line 1677) would catch.                                  *)
(***************************************************************************)
DefaultReasoning == <<"Generated using AI optimization strategies">>

\* property names, as the characters of the key
PropContent == <<"content">>
PropReasoning == <<"reasoning">>

\* lines 1723-1728 and 1735-1740: the post built from a parsed value
PostFromParsed(platform, parsed, text) ==
  [platform |-> platform,
   content |-> JsOr(GetProp(parsed, PropContent), JsStr(text)),
   characterCount |-> JsLength(JsOr(GetProp(parsed, PropContent), JsStr(text))),
   reasoning |-> JsOr(GetProp(parsed, PropReasoning), JsStr(DefaultReasoning))]

\* a fallback that pushes text.trim() in place of text
FallbackPostTrimmed(platform, text) ==
  [platform |-> platform,
   content |-> JsStr(Trim(text)),
   characterCount |-> JsLength(JsStr(Trim(text))),
   reasoning |-> JsStr(DefaultReasoning)]

\* lines 1743-1748 and 1752-1757: the final fallback
FallbackPost(platform, text) ==
  [platform |-> platform,
   content |-> JsStr(text),
   characterCount |-> JsLength(JsStr(text)),
   reasoning |-> JsStr(DefaultReasoning)]

\* a try block of the form { parsed = JSON.parse(src); posts.push({...}) }:
\* it throws when the parse throws or when parsed.content is read off null
TryParsed(platform, src, text) ==
  LET r == JSONParse(src) IN
    IF r.ok /\ ~PropThrows(r.v)
    THEN [threw |-> FALSE, post |-> PostFromParsed(platform, r.v, text)]
    ELSE [threw |-> TRUE, post |-> FallbackPost(platform, text)]

\* lines 1729-1759: the catch block of the first try
CatchBlock(platform, text) ==
  LET contentMatch == FenceMatch(text) IN
    IF contentMatch.found
    THEN LET t2 == TryParsed(platform, contentMatch.capture, text) IN
      IF ~t2.threw THEN t2.post ELSE FallbackPost(platform, text)
    ELSE FallbackPost(platform, text)

\* a first try that holds JSON.parse only, the posts.push after it: a
\* TypeError from reading parsed.content then leaves the statement
NormalizeResponseParseOnly(platform, text) ==
  LET r == JSONParse(text) IN
    IF ~r.ok THEN [escaped |-> FALSE, post |-> CatchBlock(platform, text)]
    ELSE IF PropThrows(r.v) THEN [escaped |-> TRUE, post |-> FallbackPost(platform, text)]
    ELSE [escaped |-> FALSE, post |-> PostFromParsed(platform, r.v, text)]

\* lines 1720-1759
NormalizeResponse(platform, text) ==
  LET t1 == TryParsed(platform, text, text) IN
    IF ~t1.threw
    THEN [escaped |-> FALSE, post |-> t1.post]
    ELSE [escaped |-> FALSE, post |-> CatchBlock(platform, text)]

(***************************************************************************)
(* AI response texts.  The texts are built from JSON objects, JSON values  *)
(* that are no objects, prose, and fenced blocks, alone and combined.      *)
(***************************************************************************)
\* token sequences for the value of the content key
ContentValues ==
  {<<LitHi>>, <<LitEmpty>>, <<"42">>, <<"0">>, <<"null">>, <<"false">>,
   <<"{", "}">>, <<"[", "]">>}

ObjWith(cv, withReasoning) ==
  <<"{", KeyContent, ":">> \o cv
    \o (IF withReasoning THEN <<",", KeyReasoning, ":", LitWhy>> ELSE <<>>)
    \o <<"}">>

ObjFull == ObjWith(<<LitHi>>, TRUE)
ObjNoContent == <<"{", KeyReasoning, ":", LitWhy, "}">>
ObjEmpty == <<"{", "}">>
ObjBad == <<"{", "oops", "}">>
ObjTrailingComma == <<"{", KeyContent, ":", LitHi, ",", "}">>

JsonObjects ==
  {ObjWith(cv, wr) : cv \in ContentValues, wr \in BOOLEAN}
    \cup {ObjNoContent, ObjEmpty}

Braced == JsonObjects \cup {ObjBad, ObjTrailingComma}

NonObjects == {<<"null">>, <<"42">>, <<"0">>, <<"true">>, <<LitHi>>, <<"[", "]">>, <<"[", "42", ",", LitHi, "]">>}

Prose == <<"Just buy our widgets">>

Fenced(tag, ws, body) == <<Fence>> \o tag \o ws \o body \o ws \o <<Fence>>

Tags == {<<>>, <<JsonTag>>}
Gaps == {<<>>, <<Newline>>}
Around == {<<>>, Prose \o <<Newline>>}

SingleFenceTexts ==
  {pre \o Fenced(tag, ws, body) \o post :
     pre \in Around, post \in {<<>>, <<Newline>> \o Prose},
     tag \in Tags, ws \in Gaps, body \in Braced}

\* a fenced block that holds no braces, e.g. a code sample
CodeBlock == <<Fence, "js", Newline, "oops", Newline, Fence>>

TwoFenceTexts ==
  {first \o mid \o Fenced(<<JsonTag>>, <<Newline>>, second) :
     first \in {Fenced(<<>>, <<Newline>>, ObjBad), Fenced(<<JsonTag>>, <<>>, ObjEmpty),
                Fenced(<<JsonTag>>, <<Newline>>, ObjNoContent),
                Fenced(<<JsonTag>>, <<Newline>>, ObjWith(<<LitEmpty>>, TRUE)),
                Fenced(<<JsonTag>>, <<Newline>>, ObjWith(<<LitAlt>>, FALSE)),
                Fenced(<<>>, <<>>, ObjWith(<<LitAlt>>, TRUE)),
                CodeBlock, Fenced(<<JsonTag>>, <<>>, <<"{", "oops">>)},
     mid \in {<<Newline>>, <<Newline>> \o Prose \o <<Newline>>},
     second \in {ObjFull, ObjWith(<<LitHi>>, FALSE), ObjBad}}

PlainTexts ==
  {<<>>, Prose, Prose \o <<Newline>> \o Prose, <<"{", "oops">>, <<Fence, JsonTag, Newline, "oops">>,
   <<Fence, JsonTag, Newline>> \o ObjFull, ObjFull \o Prose, Prose \o ObjFull}

Padded == {<<Newline>> \o body \o <<Space, Newline>> : body \in Braced \cup NonObjects}

Texts ==
  Braced \cup NonObjects \cup Padded \cup PlainTexts \cup SingleFenceTexts \cup TwoFenceTexts

(***************************************************************************)
(* Program constants and the bounds of the model.                          *)
(***************************************************************************)
\* null and undefined of an optional object (Project | null and the like);
\* an optional array is Null or [ids |-> the array]
Null == [null |-> TRUE]

\* line 1378: the platform registry
PLATFORMS ==
  <<[id |-> "producthunt", name |-> "Product Hunt", limit |-> 260],
    [id |-> "twitter", name |-> "X (Twitter)", limit |-> 280],
    [id |-> "linkedin", name |-> "LinkedIn", limit |-> 3000],
    [id |-> "reddit", name |-> "Reddit", limit |-> 40000]>>

PlatformIds == {PLATFORMS[k].id : k \in 1..Len(PLATFORMS)}

\* PLATFORMS.find(p => p.id === platform)?.name
PlatformName(platform) ==
  IF platform \in PlatformIds
  THEN (CHOOSE p \in {PLATFORMS[k] : k \in 1..Len(PLATFORMS)} : p.id = platform).name
  ELSE "undefined"

\* at most this many projects are created
MaxProjects == 2
\* at most this many platforms are selected at a time
MaxSelected == 3
\* at most this many post records are held by the store
MaxStoredPosts == 2
\* at most this many delayed progress resets are counted as pending
MaxTimers == 1
\* at most this many messages are shown in the chat
MaxMessages == 4
\* at most this many message records are held by the store
MaxStoredMessages == 2

\* what the user types into the URL input
UrlInputs == {<<>>, <<Space>>, <<"https://acme.io">>}

\* what blink.data.scrape resolves to: {markdown, metadata: {title?, description?}}
ScrapeResults ==
  {[markdown |-> <<"# Acme">>, title |-> JsStr(<<"Acme">>), description |-> JsStr(<<"Widgets">>)],
   [markdown |-> <<>>, title |-> JsUndefined, description |-> JsUndefined]}

\* the AI response texts a generatePosts run of SpecGen draws from
CoreTexts == {ObjFull, ObjWith(<<"42">>, FALSE), Prose}

RECURSIVE Gcd(_, _)
Gcd(a, b) == IF b = 0 THEN a ELSE Gcd(b, a % b)

\* a progress value num/den, in lowest terms
Percent(num, den) ==
  LET g == Gcd(num, den) IN [num |-> num \div g, den |-> den \div g]

(***************************************************************************)
(* State.                                                                  *)
(***************************************************************************)
VARIABLES
  projects,            \* line 1388, most recent first
  currentProject,      \* line 1389
  websiteUrl,          \* line 1390
  websiteData,         \* line 1391
  selectedPlatforms,   \* line 1392
  generatedPosts,      \* line 1393
  chatMessages,        \* line 1394
  isExtracting,        \* line 1396
  isGenerating,        \* line 1397
  progress,            \* line 1401
  currentStep,         \* line 1402
  toast,               \* the last toast shown
  timers,              \* pending setTimeout callbacks of lines 1660 and 1794
  dbProjects,          \* blink.db.projects, by id
  dbPosts,             \* blink.db.generatedPosts, in creation order
  dbMessages,          \* blink.db.chatMessages, in creation order
  nextId,              \* the next fresh project id
  ext,                 \* the extractWebsiteData call in flight
  gen,                 \* the generatePosts call in flight
  load,                \* the loadProject call in flight
  newp,                \* the createNewProject call in flight (header button)
  tog,                 \* the togglePlatform call in flight
  nText,    \* the response handling alone: the AI response text,
  nPosts,   \*   the posts array of the run,
  nPc,      \*   "await" before lines 1720-1759 run, "pushed" or "escaped" after
  chatInput,           \* line 1395
  isChatting,          \* line 1398
  chat,                \* the sendChatMessage call in flight
  del,                 \* the deleteProject call in flight
  listp                \* the loadProjects call in flight

reactVars ==
  <<projects, currentProject, websiteUrl, websiteData, selectedPlatforms,
    generatedPosts, chatMessages, isExtracting, isGenerating, progress,
    currentStep>>

storeVars == <<dbProjects, dbPosts, dbMessages, nextId>>

callVars == <<ext, gen, load, newp, tog>>

normVars == <<nText, nPosts, nPc>>

chatVars == <<chatInput, isChatting, chat>>

vars == <<reactVars, toast, timers, storeVars, callVars, normVars, chatVars, del, listp>>

Idle == [pc |-> "idle"]

\* the state after the component is constructed and the user has signed in
InitApp ==
  /\ projects = <<>>
  /\ currentProject = Null
  /\ websiteUrl = <<>>
  /\ websiteData = Null
  /\ selectedPlatforms = <<"producthunt">>
  /\ generatedPosts = <<>>
  /\ chatMessages = <<>>
  /\ isExtracting = FALSE
  /\ isGenerating = FALSE
  /\ progress = Percent(0, 1)
  /\ currentStep = ""
  /\ toast = ""
  /\ timers = 0
  /\ dbProjects = [id \in 1..MaxProjects |-> Null]
  /\ dbPosts = <<>>
  /\ dbMessages = <<>>
  /\ nextId = 1
  /\ ext = Idle
  /\ gen = Idle
  /\ load = Idle
  /\ newp = Idle
  /\ tog = Idle
  /\ chatInput = <<>>
  /\ isChatting = FALSE
  /\ chat = Idle
  /\ del = Idle
  /\ listp = Idle

Init ==
  /\ InitApp
  /\ nText = <<>>
  /\ nPosts = <<>>
  /\ nPc = "off"

Min(a, b) == IF a < b THEN a ELSE b

\* setTimeout(() => { setProgress(0); setCurrentStep('') }, 2000): one more
\* callback is pending; beyond MaxTimers pending callbacks are not told apart
ScheduleReset == timers' = Min(timers + 1, MaxTimers)

\* lines 1660-1663: a pending callback runs
TimerFire ==
  /\ timers > 0
  /\ timers' = timers - 1
  /\ progress' = Percent(0, 1)
  /\ currentStep' = ""
  /\ UNCHANGED <<projects, currentProject, websiteUrl, websiteData, selectedPlatforms,
                 generatedPosts, chatMessages, isExtracting, isGenerating, toast,
                 storeVars, callVars, normVars, chatVars, del, listp>>

\* line 2088: typing into the URL input, disabled while extracting (line 2089)
SetWebsiteUrl(url) ==
  /\ ~isExtracting
  /\ websiteUrl # url
  /\ websiteUrl' = url
  /\ UNCHANGED <<projects, currentProject, websiteData, selectedPlatforms, generatedPosts,
                 chatMessages, isExtracting, isGenerating, progress, currentStep, toast,
                 timers, storeVars, callVars, normVars, chatVars, del, listp>>

(***************************************************************************)
(* createNewProject (lines 1498-1532).  The store call is awaited; the     *)
(* two operators below are what follows it.  The project id is fresh       *)
(* (line 1502), whichever moment it is drawn at.                           *)
(***************************************************************************)
\* lines 1513-1527: blink.db.projects.create resolved
CreateProjectOk ==
  LET newProject == [id |-> nextId, site |-> Null, selectedPlatforms |-> Null] IN
    /\ dbProjects' = [dbProjects EXCEPT ![nextId] = newProject]
    /\ nextId' = nextId + 1
    /\ websiteUrl' = <<>>
    /\ websiteData' = Null
    /\ selectedPlatforms' = <<"producthunt">>
    /\ generatedPosts' = <<>>
    /\ chatMessages' = <<>>
    /\ projects' = <<newProject>> \o projects
    /\ currentProject' = newProject
    /\ toast' = "New project created!"

\* a createNewProject that resets the view before the awaited create
CreateProjectFailResetting ==
  /\ toast' = "Failed to create new project"
  /\ websiteUrl' = <<>>
  /\ websiteData' = Null
  /\ selectedPlatforms' = <<"producthunt">>
  /\ generatedPosts' = <<>>
  /\ chatMessages' = <<>>
  /\ UNCHANGED <<dbProjects, nextId, projects, currentProject>>

\* lines 1528-1531: blink.db.projects.create rejected
CreateProjectFail ==
  /\ toast' = "Failed to create new project"
  /\ UNCHANGED <<dbProjects, nextId, websiteUrl, websiteData, selectedPlatforms,
                 generatedPosts, chatMessages, projects, currentProject>>

\* line 1963: the header button
NewProjectInvoke ==
  /\ newp.pc = "idle"
  /\ nextId <= MaxProjects
  /\ newp' = [pc |-> "creating"]
  /\ UNCHANGED <<reactVars, toast, timers, storeVars, ext, gen, load, tog, normVars, chatVars, del, listp>>

NewProjectOk ==
  /\ newp.pc = "creating"
  /\ nextId <= MaxProjects
  /\ CreateProjectOk
  /\ newp' = Idle
  /\ UNCHANGED <<isExtracting, isGenerating, progress, currentStep, timers, dbPosts,
                 dbMessages, ext, gen, load, tog, normVars, chatVars, del, listp>>

NewProjectFail ==
  /\ newp.pc = "creating"
  /\ CreateProjectFail
  /\ newp' = Idle
  /\ UNCHANGED <<isExtracting, isGenerating, progress, currentStep, timers, dbPosts,
                 dbMessages, ext, gen, load, tog, normVars, chatVars, del, listp>>

(***************************************************************************)
(* extractWebsiteData (lines 1600-1665).  ext holds the values the call    *)
(* closed over when it was invoked (websiteUrl, currentProject) and, for   *)
(* the properties, websiteData as it was at that moment (before).  One     *)
(* call is in flight at a time.                                            *)
(***************************************************************************)
\* the guard without trim()
ExtractRejectsUntrimmed(url) == url = <<>>

\* line 1601
ExtractRejects(url) == Trim(url) = <<>>

\* lines 1611-1617, up to the awaited scrape call
ExtractBegin(closure) ==
  /\ isExtracting' = TRUE
  /\ progress' = Percent(25, 1)
  /\ currentStep' = "Extracting website content..."
  /\ ext' = [closure EXCEPT !.pc = "scraping"]

\* lines 1658-1664
ExtractFinally ==
  /\ isExtracting' = FALSE
  /\ ScheduleReset
  /\ ext' = Idle

\* line 2092 with an empty URL: lines 1601-1604
ExtractReject ==
  /\ ext.pc = "idle"
  /\ ~isExtracting
  /\ ExtractRejects(websiteUrl)
  /\ toast' = "Please enter a website URL"
  /\ UNCHANGED <<reactVars, timers, storeVars, callVars, normVars, chatVars, del, listp>>

\* line 2092: the call goes on to line 1607
ExtractInvoke ==
  /\ ext.pc = "idle"
  /\ ~isExtracting
  /\ ~ExtractRejects(websiteUrl)
  /\ LET closure == [pc |-> "idle", websiteUrl |-> websiteUrl,
                     currentProject |-> currentProject, before |-> websiteData,
                     websiteInfo |-> Null]
     IN IF currentProject = Null
        THEN \* line 1608: await createNewProject()
             /\ nextId <= MaxProjects
             /\ ext' = [closure EXCEPT !.pc = "creating"]
             /\ UNCHANGED <<isExtracting, progress, currentStep>>
        ELSE ExtractBegin(closure)
  /\ UNCHANGED <<projects, currentProject, websiteUrl, websiteData, selectedPlatforms,
                 generatedPosts, chatMessages, isGenerating, toast, timers, storeVars,
                 gen, load, newp, tog, normVars, chatVars, del, listp>>

\* line 1608 resolved, the project created
ExtractCreateOk ==
  /\ ext.pc = "creating"
  /\ nextId <= MaxProjects
  /\ CreateProjectOk
  /\ ExtractBegin(ext)
  /\ UNCHANGED <<isGenerating, timers, dbPosts, dbMessages, gen, load, newp, tog, normVars, chatVars, del, listp>>

\* line 1608 resolved, the project not created (createNewProject caught it)
ExtractCreateFail ==
  /\ ext.pc = "creating"
  /\ CreateProjectFail
  /\ ExtractBegin(ext)
  /\ UNCHANGED <<isGenerating, timers, dbPosts, dbMessages, gen, load, newp, tog, normVars, chatVars, del, listp>>

\* the page without the fallbacks of lines 1624-1625
WebsiteInfoAsScraped(url, result) ==
  [url |-> url, title |-> result.title, description |-> result.description,
   content |-> result.markdown]

\* lines 1622-1628
WebsiteInfo(url, result) ==
  [url |-> url,
   title |-> JsOr(result.title, JsStr(<<"Untitled">>)),
   description |-> JsOr(result.description, JsStr(<<>>)),
   content |-> result.markdown]

\* { ...prev, ...updatedProject } of lines 1647-1648
WithSite(project, info) == [project EXCEPT !.site = info]

\* line 1617 resolved: lines 1619-1635
ExtractScrapeOk(result) ==
  /\ ext.pc = "scraping"
  /\ LET info == WebsiteInfo(ext.websiteUrl, result) IN
       /\ websiteData' = info
       /\ progress' = Percent(100, 1)
       /\ currentStep' = "Website data extracted successfully!"
       /\ IF ext.currentProject # Null
          THEN \* line 1646: await blink.db.projects.update
               /\ ext' = [ext EXCEPT !.pc = "saving", !.websiteInfo = info]
               /\ UNCHANGED <<isExtracting, toast, timers>>
          ELSE /\ toast' = "Website content extracted successfully!"
               /\ ExtractFinally
  /\ UNCHANGED <<projects, currentProject, websiteUrl, selectedPlatforms, generatedPosts,
                 chatMessages, isGenerating, storeVars, gen, load, newp, tog, normVars, chatVars, del, listp>>

\* line 1617 rejected: lines 1655-1664
ExtractScrapeFail ==
  /\ ext.pc = "scraping"
  /\ toast' = "Failed to extract website content"
  /\ ExtractFinally
  /\ UNCHANGED <<projects, currentProject, websiteUrl, websiteData, selectedPlatforms,
                 generatedPosts, chatMessages, isGenerating, progress, currentStep,
                 storeVars, gen, load, newp, tog, normVars, chatVars, del, listp>>

\* line 1646 resolved: lines 1647-1648, 1654, 1658-1664
ExtractSaveOk ==
  /\ ext.pc = "saving"
  /\ LET id == ext.currentProject.id IN
       /\ dbProjects' = [dbProjects EXCEPT ![id] = WithSite(@, ext.websiteInfo)]
       /\ currentProject' =
            IF currentProject # Null THEN WithSite(currentProject, ext.websiteInfo) ELSE Null
       /\ projects' =
            [k \in 1..Len(projects) |->
               IF projects[k].id = id THEN WithSite(projects[k], ext.websiteInfo)
               ELSE projects[k]]
  /\ toast' = "Website content extracted successfully!"
  /\ ExtractFinally
  /\ UNCHANGED <<websiteUrl, websiteData, selectedPlatforms, generatedPosts, chatMessages,
                 isGenerating, progress, currentStep, dbPosts, dbMessages, nextId,
                 gen, load, newp, tog, normVars, chatVars, del, listp>>

\* line 1646 rejected: lines 1649-1651, 1654, 1658-1664
ExtractSaveFail ==
  /\ ext.pc = "saving"
  /\ toast' = "Website content extracted successfully!"
  /\ ExtractFinally
  /\ UNCHANGED <<projects, currentProject, websiteUrl, websiteData, selectedPlatforms,
                 generatedPosts, chatMessages, isGenerating, progress, currentStep,
                 storeVars, gen, load, newp, tog, normVars, chatVars, del, listp>>

(***************************************************************************)
(* generatePosts (lines 1667-1799).  gen holds the values the call closed  *)
(* over (selectedPlatforms, websiteData, currentProject), the loop index   *)
(* i (from 1), the local posts array and, for the properties, the          *)
(* platforms generateText was called for (calls).                          *)
(* The prompt text (lines 1687-1713) is not part of the state.             *)
(***************************************************************************)
\* the guard without the websiteData test
GenerateRejectsNoPlatform(data, platforms) == platforms = <<>>

\* line 1668
GenerateRejects(data, platforms) == data = Null \/ platforms = <<>>

\* posts.unshift(post) in place of posts.push(post)
UnshiftPost(posts, post) == <<post>> \o posts

\* posts.push(post)
PushPost(posts, post) == Append(posts, post)

\* Promise.all over the platforms from index i on in place of the awaited
\* call of line 1715
GenerateIssueAll(run, i) ==
  /\ progress' = Percent((i - 1) * 80, Len(run.selectedPlatforms))
  /\ currentStep' = "Generating post: " \o PlatformName(run.selectedPlatforms[i])
  /\ gen' = [run EXCEPT !.pc = "ai", !.i = i,
                        !.calls = IF i = 1 THEN run.selectedPlatforms ELSE @]

\* lines 1684-1685 and 1715 for the platform at index i (from 1)
GenerateIssue(run, i) ==
  /\ progress' = Percent((i - 1) * 80, Len(run.selectedPlatforms))
  /\ currentStep' = "Generating post: " \o PlatformName(run.selectedPlatforms[i])
  /\ gen' = [run EXCEPT !.pc = "ai", !.i = i,
                        !.calls = Append(@, run.selectedPlatforms[i])]

\* lines 1792-1798
GenerateFinally ==
  /\ isGenerating' = FALSE
  /\ ScheduleReset
  /\ gen' = Idle

\* lines 1785-1787, then 1792-1798
GenerateSucceed ==
  /\ progress' = Percent(100, 1)
  /\ currentStep' = "Launch posts generated successfully!"
  /\ toast' = "Launch posts generated successfully!"
  /\ GenerateFinally

\* a catch of the outer try that publishes the posts collected so far
GenerateAbortPublishing ==
  /\ toast' = "Failed to generate launch posts"
  /\ GenerateFinally
  /\ generatedPosts' = gen.posts
  /\ UNCHANGED <<progress, currentStep>>

\* a catch of the outer try that clears the posts on screen
GenerateAbortClearing ==
  /\ toast' = "Failed to generate launch posts"
  /\ GenerateFinally
  /\ generatedPosts' = <<>>
  /\ UNCHANGED <<progress, currentStep>>

\* a catch of the outer try with no finally after it: isGenerating stays true
GenerateAbortStuck ==
  /\ toast' = "Failed to generate launch posts"
  /\ ScheduleReset
  /\ gen' = Idle
  /\ UNCHANGED <<isGenerating, generatedPosts, progress, currentStep>>

\* lines 1789-1791, then 1792-1798: the catch of the outer try
GenerateAbort ==
  /\ toast' = "Failed to generate launch posts"
  /\ GenerateFinally
  /\ UNCHANGED <<generatedPosts, progress, currentStep>>

\* line 2165 when line 1668 holds: lines 1669-1670
GenerateReject ==
  /\ gen.pc = "idle"
  /\ ~isGenerating
  /\ GenerateRejects(websiteData, selectedPlatforms)
  /\ toast' = "Please extract website data and select platforms first"
  /\ UNCHANGED <<reactVars, timers, storeVars, callVars, normVars, chatVars, del, listp>>

\* line 2165: lines 1673-1718, up to the first awaited generateText call
GenerateInvoke ==
  /\ gen.pc = "idle"
  /\ ~isGenerating
  /\ ~GenerateRejects(websiteData, selectedPlatforms)
  /\ currentProject # Null => Len(dbPosts) + Len(selectedPlatforms) <= MaxStoredPosts
  /\ isGenerating' = TRUE
  /\ GenerateIssue([pc |-> "idle", i |-> 0, posts |-> <<>>, calls |-> <<>>, k |-> 0,
                    selectedPlatforms |-> selectedPlatforms, websiteData |-> websiteData,
                    currentProject |-> currentProject], 1)
  /\ UNCHANGED <<projects, currentProject, websiteUrl, websiteData, selectedPlatforms,
                 generatedPosts, chatMessages, isExtracting, toast, timers, storeVars,
                 ext, load, newp, tog, normVars, chatVars, del, listp>>

\* line 1715 resolved with text: lines 1720-1765
GenerateAiOk(text) ==
  /\ gen.pc = "ai"
  /\ LET out == NormalizeResponse(gen.selectedPlatforms[gen.i], text)
         posts == PushPost(gen.posts, out.post)
         run == [gen EXCEPT !.posts = posts]
     IN IF out.escaped
        THEN GenerateAbort
        ELSE IF gen.i < Len(gen.selectedPlatforms)
        THEN /\ GenerateIssue(run, gen.i + 1)
             /\ UNCHANGED <<generatedPosts, isGenerating, toast, timers>>
        ELSE /\ generatedPosts' = posts
             /\ IF gen.currentProject # Null
                THEN \* line 1769: await blink.db.generatedPosts.create for posts[1]
                     /\ gen' = [run EXCEPT !.pc = "saving", !.k = 1]
                     /\ UNCHANGED <<isGenerating, progress, currentStep, toast, timers>>
                ELSE GenerateSucceed
  /\ UNCHANGED <<projects, currentProject, websiteUrl, websiteData, selectedPlatforms,
                 chatMessages, isExtracting, storeVars, ext, load, newp, tog, normVars, chatVars, del, listp>>

\* line 1715 rejected: lines 1789-1798
GenerateAiFail ==
  /\ gen.pc = "ai"
  /\ GenerateAbort
  /\ UNCHANGED <<projects, currentProject, websiteUrl, websiteData, selectedPlatforms,
                 chatMessages, isExtracting, storeVars, ext, load, newp, tog, normVars, chatVars, del, listp>>

\* lines 1769-1778: the record created for a post
PostRecord(post, projectId) ==
  [projectId |-> projectId, platform |-> post.platform, content |-> post.content,
   characterCount |-> post.characterCount, reasoning |-> post.reasoning]

\* a save that overwrites the stored post of the project and platform when
\* there is one
GenerateSaveOkUpserting ==
  /\ gen.pc = "saving"
  /\ LET record == PostRecord(gen.posts[gen.k], gen.currentProject.id)
         Same(k) == /\ dbPosts[k].projectId = record.projectId
                    /\ dbPosts[k].platform = record.platform
     IN dbPosts' = IF \E k \in 1..Len(dbPosts) : Same(k)
                   THEN [k \in 1..Len(dbPosts) |-> IF Same(k) THEN record ELSE dbPosts[k]]
                   ELSE Append(dbPosts, record)
  /\ IF gen.k < Len(gen.posts)
     THEN /\ gen' = [gen EXCEPT !.k = @ + 1]
          /\ UNCHANGED <<isGenerating, progress, currentStep, toast, timers>>
     ELSE GenerateSucceed
  /\ UNCHANGED <<projects, currentProject, websiteUrl, websiteData, selectedPlatforms,
                 generatedPosts, chatMessages, isExtracting, dbProjects, dbMessages,
                 nextId, ext, load, newp, tog, normVars, chatVars, del, listp>>

\* line 1769 resolved for posts[k]
GenerateSaveOk ==
  /\ gen.pc = "saving"
  /\ dbPosts' = Append(dbPosts, PostRecord(gen.posts[gen.k], gen.currentProject.id))
  /\ IF gen.k < Len(gen.posts)
     THEN /\ gen' = [gen EXCEPT !.k = @ + 1]
          /\ UNCHANGED <<isGenerating, progress, currentStep, toast, timers>>
     ELSE GenerateSucceed
  /\ UNCHANGED <<projects, currentProject, websiteUrl, websiteData, selectedPlatforms,
                 generatedPosts, chatMessages, isExtracting, dbProjects, dbMessages,
                 nextId, ext, load, newp, tog, normVars, chatVars, del, listp>>

\* a rejected create that reaches the catch of the outer try
GenerateSaveFailPropagating ==
  /\ gen.pc = "saving"
  /\ GenerateAbort
  /\ UNCHANGED <<projects, currentProject, websiteUrl, websiteData, selectedPlatforms,
                 chatMessages, isExtracting, storeVars, ext, load, newp,
                 tog, normVars, chatVars, del, listp>>

\* line 1769 rejected: lines 1780-1787, the posts not yet saved stay unsaved
GenerateSaveFail ==
  /\ gen.pc = "saving"
  /\ GenerateSucceed
  /\ UNCHANGED <<projects, currentProject, websiteUrl, websiteData, selectedPlatforms,
                 generatedPosts, chatMessages, isExtracting, storeVars, ext, load, newp,
                 tog, normVars, chatVars, del, listp>>

(***************************************************************************)
(* loadProject (lines 1442-1495), invoked from the project list            *)
(* (line 2020) with an element of projects.                                *)
(***************************************************************************)
\* lines 1448-1454 (metadata is not part of the state)
LoadedSite(site) ==
  [url |-> site.url,
   title |-> JsOr(site.title, JsStr(<<>>)),
   description |-> JsOr(site.description, JsStr(<<>>)),
   content |-> site.content]

\* lines 1467-1473
LoadedPost(record) ==
  [platform |-> record.platform, content |-> record.content,
   characterCount |-> record.characterCount,
   reasoning |-> JsOr(record.reasoning, JsStr(<<>>))]

\* lines 1484-1489 (the timestamp is not part of the state)
LoadedMessage(record) == [role |-> record.role, content |-> record.content]

Reverse(seq) == [k \in 1..Len(seq) |-> seq[Len(seq) + 1 - k]]

\* lines 1463-1466: the records of a project, newest first
ListPosts(projectId) ==
  LET OfProject(record) == record.projectId = projectId
  IN Reverse(SelectSeq(dbPosts, OfProject))

\* lines 1480-1483: the records of a project, oldest first
ListMessages(projectId) ==
  LET OfProject(record) == record.projectId = projectId
  IN SelectSeq(dbMessages, OfProject)

\* lines 1443-1463, up to the awaited list call
LoadProjectBegin(project) ==
  /\ currentProject' = project
  /\ IF project.site # Null /\ project.site.url # <<>>
     THEN websiteUrl' = project.site.url /\ websiteData' = LoadedSite(project.site)
     ELSE UNCHANGED <<websiteUrl, websiteData>>
  /\ IF project.selectedPlatforms # Null
     THEN selectedPlatforms' = project.selectedPlatforms.ids
     ELSE UNCHANGED selectedPlatforms
  /\ load' = [pc |-> "posts", project |-> project]

\* lines 2019-2022: a click on a project of the list
LoadProjectInvoke(project) ==
  /\ load.pc = "idle"
  /\ LoadProjectBegin(project)
  /\ UNCHANGED <<projects, generatedPosts, chatMessages, isExtracting, isGenerating,
                 progress, currentStep, toast, timers, storeVars, ext, gen, newp, tog,
                 normVars, chatVars, del, listp>>

\* line 1463 resolved or rejected: lines 1467-1480
LoadPostsDone(ok) ==
  /\ load.pc = "posts"
  /\ IF ok
     THEN generatedPosts' =
            [k \in 1..Len(ListPosts(load.project.id)) |->
               LoadedPost(ListPosts(load.project.id)[k])]
     ELSE UNCHANGED generatedPosts
  /\ load' = [load EXCEPT !.pc = "messages"]
  /\ UNCHANGED <<projects, currentProject, websiteUrl, websiteData, selectedPlatforms,
                 chatMessages, isExtracting, isGenerating, progress, currentStep, toast,
                 timers, storeVars, ext, gen, newp, tog, normVars, chatVars, del, listp>>

\* line 1480 resolved or rejected: lines 1484-1494
LoadMessagesDone(ok) ==
  /\ load.pc = "messages"
  /\ IF ok
     THEN chatMessages' =
            [k \in 1..Len(ListMessages(load.project.id)) |->
               LoadedMessage(ListMessages(load.project.id)[k])]
     ELSE UNCHANGED chatMessages
  /\ toast' = "Loaded project"
  /\ load' = Idle
  /\ UNCHANGED <<projects, currentProject, websiteUrl, websiteData, selectedPlatforms,
                 generatedPosts, isExtracting, isGenerating, progress, currentStep,
                 timers, storeVars, ext, gen, newp, tog, normVars, chatVars, del, listp>>

(***************************************************************************)
(* deleteProject (lines 1567-1593), invoked from the delete button of a    *)
(* project of the list once the user has confirmed (lines 2041-2047).      *)
(* del holds the values the call closed over (projectId, currentProject,   *)
(* projects); with no call in flight del.pc tells how the last call ended: *)
(* "deleted" or "failed" ("idle" before the first call).  The handler      *)
(* issues one store call, blink.db.projects.delete(projectId), which       *)
(* removes the project record of that id; it issues no call on             *)
(* generatedPosts or chatMessages.  One loadProject call is in flight at   *)
(* a time, the one line 1577 starts included.                              *)
(***************************************************************************)
NoDeleteInFlight == del.pc # "deleting"

\* lines 1567-1571, up to the awaited delete call
DeleteInvoke(projectId) ==
  /\ NoDeleteInFlight
  /\ \E k \in 1..Len(projects) : projects[k].id = projectId
  /\ del' = [pc |-> "deleting", projectId |-> projectId,
             currentProject |-> currentProject, projects |-> projects]
  /\ UNCHANGED <<reactVars, toast, timers, storeVars, callVars, normVars, chatVars, listp>>

\* line 1571: blink.db.projects.delete(projectId) on the projects table
StoreDelete(records, projectId) == [records EXCEPT ![projectId] = Null]

\* line 1571 resolved: lines 1572-1589
DeleteOk ==
  /\ del.pc = "deleting"
  /\ dbProjects' = StoreDelete(dbProjects, del.projectId)
  /\ LET Other(project) == project.id # del.projectId
         remainingProjects == SelectSeq(del.projects, Other)
     IN
       /\ projects' = SelectSeq(projects, Other)
       /\ IF del.currentProject # Null /\ del.currentProject.id = del.projectId
          THEN IF remainingProjects # <<>>
               THEN /\ load.pc = "idle"
                    /\ LoadProjectBegin(remainingProjects[1])
                    /\ UNCHANGED <<generatedPosts, chatMessages>>
               ELSE /\ currentProject' = Null
                    /\ websiteUrl' = <<>>
                    /\ websiteData' = Null
                    /\ selectedPlatforms' = <<"producthunt">>
                    /\ generatedPosts' = <<>>
                    /\ chatMessages' = <<>>
                    /\ UNCHANGED load
          ELSE UNCHANGED <<currentProject, websiteUrl, websiteData, selectedPlatforms,
                           generatedPosts, chatMessages, load>>
  /\ toast' = "Project deleted!"
  /\ del' = [pc |-> "deleted", projectId |-> del.projectId]
  /\ UNCHANGED <<isExtracting, isGenerating, progress, currentStep, timers, dbPosts,
                 dbMessages, nextId, ext, gen, newp, tog, normVars, chatVars, listp>>

\* line 1571 rejected: lines 1590-1592
DeleteFail ==
  /\ del.pc = "deleting"
  /\ toast' = "Failed to delete project"
  /\ del' = [pc |-> "failed", projectId |-> del.projectId]
  /\ UNCHANGED <<reactVars, timers, storeVars, callVars, normVars, chatVars, listp>>

(***************************************************************************)
(* loadProjects (lines 1418-1439), called from the auth state callback     *)
(* (lines 1407-1412) once the user is signed in.  listp holds the          *)
(* currentProject the call closed over and, once the store has answered    *)
(* the list call, the list it answered with, which reaches the handler     *)
(* in a later step.  isLoadingProjects (line 1400) is true exactly while   *)
(* listp.pc is not "idle".  The list is ordered by updatedAt, which is     *)
(* not part of the state: the store answers with its projects in any       *)
(* order.                                                                  *)
(***************************************************************************)
\* the lists the store can answer blink.db.projects.list with
StoredProjectLists ==
  LET stored == {id \in 1..MaxProjects : dbProjects[id] # Null}
      n == Cardinality(stored)
  IN {[k \in 1..n |-> dbProjects[order[k]]] :
        order \in {f \in [1..n -> stored] : \A j, k \in 1..n : j # k => f[j] # f[k]}}

\* lines 1419-1422, up to the awaited list call
LoadProjectsInvoke ==
  /\ listp.pc = "idle"
  /\ listp' = [pc |-> "listing", currentProject |-> currentProject, userProjects |-> <<>>]
  /\ UNCHANGED <<reactVars, toast, timers, storeVars, callVars, normVars, chatVars, del>>

\* line 1423: the store answers the list call
LoadProjectsFetched ==
  /\ listp.pc = "listing"
  /\ \E userProjects \in StoredProjectLists :
       listp' = [listp EXCEPT !.pc = "fetched", !.userProjects = userProjects]
  /\ UNCHANGED <<reactVars, toast, timers, storeVars, callVars, normVars, chatVars, del>>

\* line 1423 resolved: lines 1427-1438
LoadProjectsOk ==
  /\ listp.pc = "fetched"
  /\ projects' = listp.userProjects
  /\ IF listp.currentProject = Null /\ listp.userProjects # <<>>
     THEN /\ load.pc = "idle"
          /\ LoadProjectBegin(listp.userProjects[1])
     ELSE UNCHANGED <<currentProject, websiteUrl, websiteData, selectedPlatforms, load>>
  /\ listp' = Idle
  /\ UNCHANGED <<generatedPosts, chatMessages, isExtracting, isGenerating, progress,
                 currentStep, toast, timers, storeVars, ext, gen, newp, tog, normVars,
                 chatVars, del>>

\* line 1423 rejected: lines 1432-1438
LoadProjectsFail ==
  /\ listp.pc = "listing"
  /\ toast' = "Failed to load projects"
  /\ listp' = Idle
  /\ UNCHANGED <<reactVars, timers, storeVars, callVars, normVars, chatVars, del>>

(***************************************************************************)
(* togglePlatform (lines 1879-1901), invoked from the platform list        *)
(* (line 2148) with the id of a registry entry.                            *)
(***************************************************************************)
\* a toggle that selects at the front
ToggledPrepending(platforms, platformId) ==
  LET Other(id) == id # platformId IN
    IF \E k \in 1..Len(platforms) : platforms[k] = platformId
    THEN SelectSeq(platforms, Other)
    ELSE <<platformId>> \o platforms

\* lines 1880-1882
Toggled(platforms, platformId) ==
  LET Other(id) == id # platformId IN
    IF \E k \in 1..Len(platforms) : platforms[k] = platformId
    THEN SelectSeq(platforms, Other)
    ELSE Append(platforms, platformId)

\* { ...prev, ...updatedProject } of lines 1895-1896
WithPlatforms(project, platforms) ==
  [project EXCEPT !.selectedPlatforms = [ids |-> platforms]]

\* lines 1880-1894, up to the awaited update call
TogglePlatformInvoke(platformId) ==
  /\ tog.pc = "idle"
  /\ Len(Toggled(selectedPlatforms, platformId)) <= MaxSelected
  /\ selectedPlatforms' = Toggled(selectedPlatforms, platformId)
  /\ IF currentProject # Null
     THEN tog' = [pc |-> "saving", newPlatforms |-> Toggled(selectedPlatforms, platformId),
                  currentProject |-> currentProject]
     ELSE tog' = Idle
  /\ UNCHANGED <<projects, currentProject, websiteUrl, websiteData, generatedPosts,
                 chatMessages, isExtracting, isGenerating, progress, currentStep, toast,
                 timers, storeVars, ext, gen, load, newp, normVars, chatVars, del, listp>>

\* line 1894 resolved: lines 1895-1896
TogglePlatformSaveOk ==
  /\ tog.pc = "saving"
  /\ LET id == tog.currentProject.id IN
       /\ dbProjects' = [dbProjects EXCEPT ![id] = WithPlatforms(@, tog.newPlatforms)]
       /\ currentProject' =
            IF currentProject # Null
            THEN WithPlatforms(currentProject, tog.newPlatforms) ELSE Null
       /\ projects' =
            [k \in 1..Len(projects) |->
               IF projects[k].id = id THEN WithPlatforms(projects[k], tog.newPlatforms)
               ELSE projects[k]]
  /\ tog' = Idle
  /\ UNCHANGED <<websiteUrl, websiteData, selectedPlatforms, generatedPosts, chatMessages,
                 isExtracting, isGenerating, progress, currentStep, toast, timers,
                 dbPosts, dbMessages, nextId, ext, gen, load, newp, normVars, chatVars, del, listp>>

\* line 1894 rejected: lines 1897-1899
TogglePlatformSaveFail ==
  /\ tog.pc = "saving"
  /\ tog' = Idle
  /\ UNCHANGED <<reactVars, toast, timers, storeVars, ext, gen, load, newp, normVars, chatVars, del, listp>>

(***************************************************************************)
(* sendChatMessage (lines 1801-1872), invoked from the Send button (line   *)
(* 2412) or the Enter key (line 2404); both are disabled while isChatting  *)
(* (lines 2407, 2413).  chat holds the values the call closed over         *)
(* (chatInput as userMessage, currentProject), the reply once received     *)
(* and, for the properties, chatMessages as it was at that moment          *)
(* (before).  With no call in flight chat.pc tells how the last call        *)
(* ended: "returned" at line 1802, "failed" in the catch of line 1865,     *)
(* "done" otherwise ("idle" before the first call).  The prompt text       *)
(* (lines 1814-1828) is not part of the state.                             *)
(***************************************************************************)
\* what the user types into the chat box
ChatInputs == {<<>>, <<Space>>, <<"Make it punchier">>}

\* what blink.ai.generateText resolves to for a chat prompt
ChatReplies == {<<"Lead with the benefit">>}

\* line 2400: typing into the chat box, disabled by line 2407
SetChatInput(text) ==
  /\ ~isChatting
  /\ websiteData # Null
  /\ chatInput # text
  /\ chatInput' = text
  /\ UNCHANGED <<reactVars, toast, timers, storeVars, callVars, normVars, isChatting,
                 chat, del, listp>>

\* the guard without trim()
ChatRejectsUntrimmed(input, data) == input = <<>> \/ data = Null

\* line 1802
ChatRejects(input, data) == Trim(input) = <<>> \/ data = Null

NoChatInFlight == chat.pc \in {"idle", "returned", "failed", "done"}

\* line 1802 holds: the call returns
ChatReject ==
  /\ NoChatInFlight
  /\ ~isChatting
  /\ ChatRejects(chatInput, websiteData)
  /\ chat' = [pc |-> "returned"]
  /\ UNCHANGED <<reactVars, toast, timers, storeVars, callVars, normVars, chatInput,
                 isChatting, del, listp>>

\* lines 1804-1808 and 1854-1861: a message and the record created for it
ChatMessage(role, content) == [role |-> role, content |-> content]

MessageRecord(message, projectId) ==
  [projectId |-> projectId, role |-> message.role, content |-> message.content]

\* [message, ...prev] in place of [...prev, message]
PrependMessage(messages, message) == <<message>> \o messages

\* [...prev, message] of lines 1810 and 1837
AppendMessage(messages, message) == Append(messages, message)

\* lines 1868-1870
ChatFinally(outcome) ==
  /\ isChatting' = FALSE
  /\ chat' = [pc |-> outcome]

\* lines 1804-1829, up to the awaited generateText call
ChatInvoke ==
  /\ NoChatInFlight
  /\ ~isChatting
  /\ ~ChatRejects(chatInput, websiteData)
  /\ Len(chatMessages) + 2 <= MaxMessages
  /\ currentProject # Null => Len(dbMessages) + 2 <= MaxStoredMessages
  /\ chatMessages' = AppendMessage(chatMessages, ChatMessage("user", chatInput))
  /\ chatInput' = <<>>
  /\ isChatting' = TRUE
  /\ chat' = [pc |-> "ai", userMessage |-> ChatMessage("user", chatInput),
              assistantMessage |-> Null, currentProject |-> currentProject,
              before |-> chatMessages]
  /\ UNCHANGED <<projects, currentProject, websiteUrl, websiteData, selectedPlatforms,
                 generatedPosts, isExtracting, isGenerating, progress, currentStep,
                 toast, timers, storeVars, callVars, normVars, del, listp>>

\* line 1819 resolved with text: lines 1831-1853
ChatAiOk(text) ==
  /\ chat.pc = "ai"
  /\ chatMessages' = AppendMessage(chatMessages, ChatMessage("assistant", text))
  /\ IF chat.currentProject # Null
     THEN \* line 1846: await blink.db.chatMessages.create for the user message
          /\ chat' = [chat EXCEPT !.pc = "saveUser",
                                  !.assistantMessage = ChatMessage("assistant", text)]
          /\ UNCHANGED isChatting
     ELSE ChatFinally("done")
  /\ UNCHANGED <<projects, currentProject, websiteUrl, websiteData, selectedPlatforms,
                 generatedPosts, isExtracting, isGenerating, progress, currentStep,
                 toast, timers, storeVars, callVars, normVars, chatInput, del, listp>>

\* a catch that puts the history from before the turn back
ChatAiFailReverting ==
  /\ chat.pc = "ai"
  /\ toast' = "Failed to get AI response"
  /\ ChatFinally("failed")
  /\ chatMessages' = chat.before
  /\ UNCHANGED <<projects, currentProject, websiteUrl, websiteData, selectedPlatforms,
                 generatedPosts, isExtracting, isGenerating, progress, currentStep,
                 timers, storeVars, callVars, normVars, chatInput, del, listp>>

\* line 1819 rejected: lines 1865-1870
ChatAiFail ==
  /\ chat.pc = "ai"
  /\ toast' = "Failed to get AI response"
  /\ ChatFinally("failed")
  /\ UNCHANGED <<reactVars, timers, storeVars, callVars, normVars, chatInput, del, listp>>

\* line 1846 resolved: up to the awaited create of line 1855
ChatSaveUserOk ==
  /\ chat.pc = "saveUser"
  /\ dbMessages' = Append(dbMessages, MessageRecord(chat.userMessage, chat.currentProject.id))
  /\ chat' = [chat EXCEPT !.pc = "saveAssistant"]
  /\ UNCHANGED <<reactVars, toast, timers, dbProjects, dbPosts, nextId, callVars,
                 normVars, chatInput, isChatting, del, listp>>

\* line 1855 resolved: lines 1868-1870
ChatSaveAssistantOk ==
  /\ chat.pc = "saveAssistant"
  /\ dbMessages' =
       Append(dbMessages, MessageRecord(chat.assistantMessage, chat.currentProject.id))
  /\ ChatFinally("done")
  /\ UNCHANGED <<reactVars, toast, timers, dbProjects, dbPosts, nextId, callVars,
                 normVars, chatInput, del, listp>>

\* line 1846 or 1855 rejected: lines 1862-1864, 1868-1870
ChatSaveFail ==
  /\ chat.pc \in {"saveUser", "saveAssistant"}
  /\ ChatFinally("done")
  /\ UNCHANGED <<reactVars, toast, timers, storeVars, callVars, normVars, chatInput, del, listp>>

(***************************************************************************)
(* Extraction and project creation: every interleaving of typing a URL,    *)
(* extractWebsiteData, createNewProject, loadProject and the delayed       *)
(* progress reset, from the state after construction.                      *)
(***************************************************************************)
NextExt ==
  \/ TimerFire
  \/ \E url \in UrlInputs : SetWebsiteUrl(url)
  \/ NewProjectInvoke
  \/ NewProjectOk
  \/ NewProjectFail
  \/ ExtractReject
  \/ ExtractInvoke
  \/ ExtractCreateOk
  \/ ExtractCreateFail
  \/ \E result \in ScrapeResults : ExtractScrapeOk(result)
  \/ ExtractScrapeFail
  \/ ExtractSaveOk
  \/ ExtractSaveFail
  \/ \E k \in 1..Len(projects) : LoadProjectInvoke(projects[k])
  \/ \E ok \in BOOLEAN : LoadPostsDone(ok)
  \/ \E ok \in BOOLEAN : LoadMessagesDone(ok)

SpecExt == Init /\ [][NextExt]_vars

(***************************************************************************)
(* Generation: every interleaving of generatePosts, loadProject and the    *)
(* delayed progress reset, from the states that extraction and platform    *)
(* toggling leave behind.                                                  *)
(***************************************************************************)
AcmePage ==
  WebsiteInfo(<<"https://acme.io">>,
              [markdown |-> <<"# Acme">>, title |-> JsStr(<<"Acme">>),
               description |-> JsStr(<<"Widgets">>)])

\* the platform selections generation starts from, as toggling leaves them
Selections ==
  {<<>>, <<"producthunt">>, <<"producthunt", "twitter">>, <<"twitter", "producthunt">>}

\* the states generation starts from
\*  "fresh"    nothing extracted, no project (the state after construction)
\*  "first"    after the first extraction, which created project 1
\*             (the page is not saved to it: line 1635 reads the null
\*             currentProject the call closed over)
\*  "again"    after a second extraction, which saved the page to project 1
InitGen ==
  \E start \in {"fresh", "first", "again"}, selection \in Selections :
    LET site == IF start = "again" THEN AcmePage ELSE Null
        project == [id |-> 1, site |-> site, selectedPlatforms |-> Null]
    IN
    /\ projects = IF start = "fresh" THEN <<>> ELSE <<project>>
    /\ currentProject = IF start = "fresh" THEN Null ELSE project
    /\ websiteUrl = IF start = "again" THEN <<"https://acme.io">> ELSE <<>>
    /\ websiteData = IF start = "fresh" THEN Null ELSE AcmePage
    /\ selectedPlatforms = selection
    /\ generatedPosts = <<>>
    /\ chatMessages = <<>>
    /\ isExtracting = FALSE
    /\ isGenerating = FALSE
    /\ progress = Percent(0, 1)
    /\ currentStep = ""
    /\ toast = IF start = "fresh" THEN "" ELSE "Website content extracted successfully!"
    /\ timers = 0
    /\ dbProjects = [id \in 1..MaxProjects |-> IF id = 1 /\ start # "fresh" THEN project ELSE Null]
    /\ dbPosts = <<>>
    /\ dbMessages = <<>>
    /\ nextId = IF start = "fresh" THEN 1 ELSE 2
    /\ ext = Idle
    /\ gen = Idle
    /\ load = Idle
    /\ newp = Idle
    /\ tog = Idle
    /\ chatInput = <<>>
    /\ isChatting = FALSE
    /\ chat = Idle
    /\ del = Idle
    /\ listp = Idle
    /\ nText = <<>>
    /\ nPosts = <<>>
    /\ nPc = "off"

NextGen ==
  \/ TimerFire
  \/ GenerateReject
  \/ GenerateInvoke
  \/ \E text \in CoreTexts : GenerateAiOk(text)
  \/ GenerateAiFail
  \/ GenerateSaveOk
  \/ GenerateSaveFail
  \/ \E k \in 1..Len(projects) : LoadProjectInvoke(projects[k])
  \/ \E ok \in BOOLEAN : LoadPostsDone(ok)
  \/ \E ok \in BOOLEAN : LoadMessagesDone(ok)

SpecGen == InitGen /\ [][NextGen]_vars

(***************************************************************************)
(* Chat: every interleaving of typing a message, sendChatMessage,          *)
(* createNewProject and loadProject, from the states generation starts     *)
(* from with the initial platform selection.                               *)
(***************************************************************************)
InitChat == InitGen /\ selectedPlatforms = <<"producthunt">>

NextChat ==
  \/ \E text \in ChatInputs : SetChatInput(text)
  \/ ChatReject
  \/ ChatInvoke
  \/ \E text \in ChatReplies : ChatAiOk(text)
  \/ ChatAiFail
  \/ ChatSaveUserOk
  \/ ChatSaveAssistantOk
  \/ ChatSaveFail
  \/ NewProjectInvoke
  \/ NewProjectOk
  \/ NewProjectFail
  \/ \E k \in 1..Len(projects) : LoadProjectInvoke(projects[k])
  \/ \E ok \in BOOLEAN : LoadPostsDone(ok)
  \/ \E ok \in BOOLEAN : LoadMessagesDone(ok)

SpecChat == InitChat /\ [][NextChat]_vars

(***************************************************************************)
(* Saving: extractWebsiteData, generatePosts, togglePlatform and           *)
(* sendChatMessage under a current project, each of which ends in store    *)
(* writes that succeed or fail.  The handlers run one after the other, in  *)
(* every order, and their scrape and generateText calls succeed.           *)
(***************************************************************************)
InitPersist ==
  InitGen /\ selectedPlatforms = <<"producthunt">> /\ currentProject # Null

\* no handler is between its invocation and its end
Quiet == ext.pc = "idle" /\ gen.pc = "idle" /\ tog.pc = "idle" /\ NoChatInFlight

NextPersist ==
  \/ SetWebsiteUrl(<<"https://acme.io">>)
  \/ Quiet /\ ExtractInvoke
  \/ \E result \in ScrapeResults : ExtractScrapeOk(result)
  \/ ExtractSaveOk
  \/ ExtractSaveFail
  \/ Quiet /\ GenerateInvoke
  \/ GenerateAiOk(ObjFull)
  \/ GenerateSaveOk
  \/ GenerateSaveFail
  \/ Quiet /\ TogglePlatformInvoke("twitter")
  \/ TogglePlatformSaveOk
  \/ TogglePlatformSaveFail
  \/ SetChatInput(<<"Make it punchier">>)
  \/ Quiet /\ ChatInvoke
  \/ \E text \in ChatReplies : ChatAiOk(text)
  \/ ChatSaveUserOk
  \/ ChatSaveAssistantOk
  \/ ChatSaveFail

SpecPersist == InitPersist /\ [][NextPersist]_vars

(***************************************************************************)
(* Deleting: createNewProject, generatePosts, sendChatMessage, loadProject *)
(* and deleteProject, from the states generation starts from with the      *)
(* initial platform selection.  The handlers that write posts and          *)
(* messages run one after the other and their generateText calls succeed;  *)
(* a project is clicked or deleted while no loadProject or deleteProject   *)
(* call is in flight.                                                      *)
(***************************************************************************)
InitDel == InitGen /\ selectedPlatforms = <<"producthunt">>

\* no handler that writes posts or messages is between its invocation and its end
QuietDel == gen.pc = "idle" /\ NoChatInFlight

\* no loadProject or deleteProject call is in flight
Settled == load.pc = "idle" /\ NoDeleteInFlight

NextDel ==
  \/ NewProjectInvoke
  \/ NewProjectOk
  \/ NewProjectFail
  \/ QuietDel /\ GenerateInvoke
  \/ GenerateAiOk(ObjFull)
  \/ GenerateSaveOk
  \/ GenerateSaveFail
  \/ SetChatInput(<<"Make it punchier">>)
  \/ QuietDel /\ ChatInvoke
  \/ \E text \in ChatReplies : ChatAiOk(text)
  \/ ChatSaveUserOk
  \/ ChatSaveAssistantOk
  \/ ChatSaveFail
  \/ Settled /\ \E k \in 1..Len(projects) : LoadProjectInvoke(projects[k])
  \/ LoadPostsDone(TRUE)
  \/ LoadMessagesDone(TRUE)
  \/ Settled /\ \E id \in 1..MaxProjects : DeleteInvoke(id)
  \/ DeleteOk
  \/ DeleteFail

SpecDel == InitDel /\ [][NextDel]_vars

(***************************************************************************)
(* A returning user: the store holds project 1 with its page and the       *)
(* platform selection it was saved with, loadProjects (lines 1418-1439)    *)
(* has listed it and its loadProject call has finished.  The store is      *)
(* outside the application: loadProject takes the stored selection as it   *)
(* is (lines 1457-1459), whether or not its ids are in PLATFORMS.          *)
(***************************************************************************)
\* an id that is not in PLATFORMS
ForeignId == "mastodon"

\* the selections the stored project holds
StoredSelections ==
  {<<>>, <<"producthunt">>, <<ForeignId>>, <<ForeignId, "twitter">>,
   <<"producthunt", ForeignId>>}

InitStored ==
  \E selection \in StoredSelections :
    LET project == [id |-> 1, site |-> AcmePage, selectedPlatforms |-> [ids |-> selection]]
    IN
    /\ projects = <<project>>
    /\ currentProject = project
    /\ websiteUrl = project.site.url
    /\ websiteData = LoadedSite(project.site)
    /\ selectedPlatforms = project.selectedPlatforms.ids
    /\ generatedPosts = <<>>
    /\ chatMessages = <<>>
    /\ isExtracting = FALSE
    /\ isGenerating = FALSE
    /\ progress = Percent(0, 1)
    /\ currentStep = ""
    /\ toast = "Loaded project"
    /\ timers = 0
    /\ dbProjects = [id \in 1..MaxProjects |-> IF id = 1 THEN project ELSE Null]
    /\ dbPosts = <<>>
    /\ dbMessages = <<>>
    /\ nextId = 2
    /\ ext = Idle
    /\ gen = Idle
    /\ load = Idle
    /\ newp = Idle
    /\ tog = Idle
    /\ chatInput = <<>>
    /\ isChatting = FALSE
    /\ chat = Idle
    /\ del = Idle
    /\ listp = Idle
    /\ nText = <<>>
    /\ nPosts = <<>>
    /\ nPc = "off"

NextStored ==
  \/ TimerFire
  \/ GenerateReject
  \/ GenerateInvoke
  \/ \E text \in CoreTexts : GenerateAiOk(text)
  \/ GenerateAiFail
  \/ GenerateSaveOk
  \/ GenerateSaveFail
  \/ \E k \in 1..Len(projects) : LoadProjectInvoke(projects[k])
  \/ \E ok \in BOOLEAN : LoadPostsDone(ok)
  \/ \E ok \in BOOLEAN : LoadMessagesDone(ok)

SpecStored == InitStored /\ [][NextStored]_vars

(***************************************************************************)
(* Selecting platforms: togglePlatform on the ids of PLATFORMS, its store   *)
(* write resolved or rejected, from the states generation starts from      *)
(* (with and without a current project).                                   *)
(***************************************************************************)
NextTog ==
  \/ \E platformId \in PlatformIds : TogglePlatformInvoke(platformId)
  \/ TogglePlatformSaveOk
  \/ TogglePlatformSaveFail

SpecTog == InitGen /\ [][NextTog]_vars

(***************************************************************************)
(* The extracted page: extractWebsiteData alone, from the states           *)
(* generation starts from, on two URLs and on scrape results with and      *)
(* without a title and a description.                                      *)
(***************************************************************************)
PageUrls == {<<"https://acme.io">>, <<"https://beta.dev">>}

PageScrapes ==
  ScrapeResults \cup
    {[markdown |-> <<"# Beta">>, title |-> JsStr(<<>>), description |-> JsStr(<<"Gadgets">>)],
     [markdown |-> <<"# Beta">>, title |-> JsStr(<<"Beta">>), description |-> JsStr(<<>>)]}

InitPage == InitGen /\ selectedPlatforms = <<"producthunt">>

NextPage ==
  \/ \E url \in PageUrls : SetWebsiteUrl(url)
  \/ ExtractInvoke
  \/ ExtractCreateOk
  \/ ExtractCreateFail
  \/ \E result \in PageScrapes : ExtractScrapeOk(result)
  \/ ExtractScrapeFail
  \/ ExtractSaveOk
  \/ ExtractSaveFail

SpecPage == InitPage /\ [][NextPage]_vars

(***************************************************************************)
(* The project list: loadProjects, the createNewProject call of an         *)
(* extraction started with no current project, loadProject and             *)
(* deleteProject, from the state after construction.  A project of the     *)
(* list is clicked or deleted while no loadProjects, loadProject or        *)
(* deleteProject call is in flight.                                        *)
(***************************************************************************)
NextList ==
  \/ LoadProjectsInvoke
  \/ LoadProjectsFetched
  \/ LoadProjectsOk
  \/ LoadProjectsFail
  \/ SetWebsiteUrl(<<"https://acme.io">>)
  \/ currentProject = Null /\ ExtractInvoke
  \/ ExtractCreateOk
  \/ ExtractCreateFail
  \/ \E result \in ScrapeResults : ExtractScrapeOk(result)
  \/ ExtractScrapeFail
  \/ (Settled /\ listp.pc = "idle") /\ \E k \in 1..Len(projects) : LoadProjectInvoke(projects[k])
  \/ LoadPostsDone(TRUE)
  \/ LoadMessagesDone(TRUE)
  \/ (Settled /\ listp.pc = "idle") /\ \E id \in 1..MaxProjects : DeleteInvoke(id)
  \/ DeleteOk
  \/ DeleteFail

SpecList == Init /\ [][NextList]_vars

(***************************************************************************)
(* Busy flags: extractWebsiteData, generatePosts and sendChatMessage, one  *)
(* after the other in every order, each external call (createNewProject,   *)
(* scrape, generateText, store write) succeeding or failing.  Every        *)
(* awaited call returns: the step that resumes the handler in flight is    *)
(* weakly fair.                                                            *)
(***************************************************************************)
ExtractResumes ==
  \/ ExtractCreateOk
  \/ ExtractCreateFail
  \/ \E result \in ScrapeResults : ExtractScrapeOk(result)
  \/ ExtractScrapeFail
  \/ ExtractSaveOk
  \/ ExtractSaveFail

GenerateResumes ==
  \/ GenerateAiOk(Prose)
  \/ GenerateAiFail
  \/ GenerateSaveOk
  \/ GenerateSaveFail

ChatResumes ==
  \/ \E text \in ChatReplies : ChatAiOk(text)
  \/ ChatAiFail
  \/ ChatSaveUserOk
  \/ ChatSaveAssistantOk
  \/ ChatSaveFail

NextBusy ==
  \/ SetWebsiteUrl(<<"https://acme.io">>)
  \/ Quiet /\ ExtractInvoke
  \/ ExtractResumes
  \/ Quiet /\ GenerateInvoke
  \/ GenerateResumes
  \/ SetChatInput(<<"Make it punchier">>)
  \/ Quiet /\ ChatInvoke
  \/ ChatResumes

\* one handler is in flight at a time: the step that resumes it
Resumes == ExtractResumes \/ GenerateResumes \/ ChatResumes

SpecBusy == InitPage /\ [][NextBusy]_vars /\ WF_vars(Resumes)

(***************************************************************************)
(* The response handling alone (lines 1720-1759), on every text of Texts.  *)
(***************************************************************************)
InitNorm ==
  /\ InitApp
  /\ nText \in Texts
  /\ nPosts = <<>>
  /\ nPc = "await"

\* lines 1720-1759 for platform selectedPlatforms[i] and response nText
NormHandle(platform) ==
  /\ nPc = "await"
  /\ LET out == NormalizeResponse(platform, nText) IN
       IF out.escaped
       THEN nPc' = "escaped" /\ nPosts' = nPosts
       ELSE nPc' = "pushed" /\ nPosts' = Append(nPosts, out.post)
  /\ UNCHANGED <<nText, reactVars, toast, timers, storeVars, callVars, chatVars, del, listp>>

NextNorm == \E platform \in {"producthunt", "twitter"} : NormHandle(platform)

SpecNorm == InitNorm /\ [][NextNorm]_vars

(***************************************************************************)
(* Properties.                                                             *)
(***************************************************************************)
GenerateFailedToast == "Failed to generate launch posts"
GenerateSucceededToast == "Launch posts generated successfully!"
GenerateRejectedToast == "Please extract website data and select platforms first"
ExtractFailedToast == "Failed to extract website content"
ExtractRejectedToast == "Please enter a website URL"

\* the step in which the awaited generateText call rejects
AiCallFails ==
  gen.pc = "ai" /\ gen'.pc = "idle" /\ toast' = GenerateFailedToast

\* the step in which a run publishes its posts (line 1762)
RunPublishes ==
  /\ gen.pc = "ai"
  /\ gen'.pc = "saving" \/ (gen'.pc = "idle" /\ toast' = GenerateSucceededToast)

\* C1 as stated: a failing AI call for one platform is skipped and the
\* remaining platforms are still generated and published: while platforms
\* remain the run goes on to the next call, and after the last call it
\* publishes what it has.
C1_FailureSkipsOnePlatform ==
  [][gen.pc = "ai" =>
       IF gen.i < Len(gen.selectedPlatforms)
       THEN gen'.pc = "ai" /\ gen'.i = gen.i + 1
       ELSE /\ Len(generatedPosts') >= Len(gen.posts)
            /\ SubSeq(generatedPosts', 1, Len(gen.posts)) = gen.posts]_gen

\* C1 as amended: a failing AI call aborts the whole run: the run ends in
\* that step with the error toast, publishes none of its posts
\* (generatedPosts keeps its value), writes nothing to the store, and
\* isGenerating is false again; no call is skipped: a call that does not
\* end the run adds one post to the run's posts.
C1_FailureAbortsRun ==
  [][/\ AiCallFails =>
          /\ generatedPosts' = generatedPosts
          /\ dbPosts' = dbPosts
          /\ ~isGenerating'
     /\ (gen.pc = "ai" /\ gen' # gen) =>
          \/ AiCallFails
          \/ RunPublishes
          \/ gen'.pc = "ai" /\ Len(gen'.posts) = Len(gen.posts) + 1]_vars

\* C1 witness: a run over two platforms failed after an earlier run had
\* published, and the earlier posts are still shown
C1_Witness ==
  /\ toast = GenerateFailedToast
  /\ gen.pc = "idle"
  /\ ~isGenerating
  /\ Len(selectedPlatforms) = 2
  /\ Len(generatedPosts) = 2

\* C2: a run that publishes has called generateText exactly once for each
\* selected platform id, in order, and publishes exactly one post per id,
\* in the order of the selection.
C2_OnePostPerPlatformInOrder ==
  [][RunPublishes =>
       /\ gen.calls = gen.selectedPlatforms
       /\ Len(generatedPosts') = Len(gen.selectedPlatforms)
       /\ \A k \in 1..Len(gen.selectedPlatforms) :
            generatedPosts'[k].platform = gen.selectedPlatforms[k]]_vars

\* C2 witness: the posts of a run over twitter, then producthunt
C2_Witness ==
  /\ selectedPlatforms = <<"twitter", "producthunt">>
  /\ toast = GenerateSucceededToast
  /\ gen.pc = "idle"
  /\ Len(generatedPosts) = 2
  /\ generatedPosts[1].platform = "twitter"
  /\ generatedPosts[2].platform = "producthunt"

\* C3 as stated: every post in generatedPosts has a characterCount equal to
\* the length of its content.
C3_CountIsContentLength ==
  \A k \in 1..Len(generatedPosts) :
    /\ generatedPosts[k].content.t = "str"
    /\ generatedPosts[k].characterCount = JsNum(StrLen(generatedPosts[k].content.s))

\* v is an object with an own member key
HasKey(v, key) == v.t = "obj" /\ \E k \in 1..Len(v.m) : v.m[k][1] = key

\* text is valid JSON for an object with a content key
IsJsonWithContent(text) ==
  JSONParse(text).ok /\ HasKey(JSONParse(text).v, PropContent)

ContentOf(text) == GetProp(JSONParse(text).v, PropContent)

\* C4 as stated: for a response that is valid JSON with a content key the
\* emitted content is that key's value, whatever the value.
C4_ContentRoundTrip ==
  (nPc = "pushed" /\ nText # <<>> /\ IsJsonWithContent(nText))
    => nPosts[1].content = ContentOf(nText)

\* C4 as amended: for a response that is valid JSON with a content key the
\* emitted content is that key's value when the value is truthy (a
\* non-empty string, a non-zero number, true, an object, an array); when it
\* is falsy (the empty string, 0, false, null) the emitted content is the
\* whole raw text.
C4_TruthyContentRoundTrip ==
  (nPc = "pushed" /\ nText # <<>> /\ IsJsonWithContent(nText))
    => nPosts[1].content =
         IF Truthy(ContentOf(nText)) THEN ContentOf(nText) ELSE JsStr(nText)

\* C4 witness: the round trip of a string, with surrounding whitespace
C4_Witness ==
  /\ nPc = "pushed"
  /\ nText = <<Newline>> \o ObjFull \o <<Space, Newline>>
  /\ nPosts[1].content = JsStr(<<"Launching Acme!">>)

\* text[i] is a fence that, after an optional json tag and whitespace, is
\* followed by an opening brace at k
BraceFenceAt(text, i, k) ==
  /\ i \in 1..Len(text)
  /\ text[i] = Fence
  /\ \/ k = SkipWs(text, i + 1)
     \/ i + 1 <= Len(text) /\ text[i + 1] = JsonTag /\ k = SkipWs(text, i + 2)
  /\ k <= Len(text)
  /\ text[k] = "{"

\* text[i..] is a fenced block whose body text[k..e] is a valid JSON object
FencedObjectAt(text, i, k, e) ==
  /\ BraceFenceAt(text, i, k)
  /\ e \in k..Len(text)
  /\ ClosesAt(text, e)
  /\ JSONParse(SubSeq(text, k, e)).ok

\* the same, tagged json and with a content key
JsonBlockWithContentAt(text, i, k, e) ==
  /\ FencedObjectAt(text, i, k, e)
  /\ text[i + 1] = JsonTag
  /\ IsJsonWithContent(SubSeq(text, k, e))

Positions(text) == 1..Len(text)

\* C5 as stated: when the response contains a fenced json block holding a
\* valid JSON object with a content field, the emitted content is the
\* content of such a block, whatever comes before or after it.
C5_FencedContentExtracted ==
  (nPc = "pushed" /\ \E i, k, e \in Positions(nText) : JsonBlockWithContentAt(nText, i, k, e))
    => \E i, k, e \in Positions(nText) :
         /\ JsonBlockWithContentAt(nText, i, k, e)
         /\ nPosts[1].content = ContentOf(SubSeq(nText, k, e))

\* C5 as amended: when the response is not itself valid JSON, contains a
\* fenced json block holding a valid JSON object with a truthy content,
\* no closing brace inside that object is followed by a fence, and no
\* earlier fence of the text is followed (after an optional json tag and
\* whitespace) by an opening brace, the emitted content is that object's
\* content, also when prose or fenced blocks that do not open with a brace
\* come before it, and whatever comes after it.
C5_FirstFencedContentExtracted ==
  (nPc = "pushed" /\ ~JSONParse(nText).ok) =>
    \A i, k, e \in Positions(nText) :
      ( /\ JsonBlockWithContentAt(nText, i, k, e)
        /\ Truthy(ContentOf(SubSeq(nText, k, e)))
        /\ ~\E e0 \in (k + 1)..(e - 1) : ClosesAt(nText, e0)
        /\ ~\E i0 \in 1..(i - 1), k0 \in Positions(nText) : BraceFenceAt(nText, i0, k0) )
      => nPosts[1].content = ContentOf(SubSeq(nText, k, e))

\* C5 witness: of two valid fenced json blocks with prose between them the
\* first one is extracted
C5_Witness ==
  /\ nPc = "pushed"
  /\ nText = Fenced(<<JsonTag>>, <<Newline>>, ObjWith(<<LitAlt>>, FALSE))
               \o <<Newline>> \o Prose \o <<Newline>>
               \o Fenced(<<JsonTag>>, <<Newline>>, ObjFull)
  /\ nPosts[1].content = JsStr(<<"Acme is live">>)

\* C6: whatever the response text, handling it pushes exactly one post, with
\* a content and a reasoning, and no exception leaves the statement.
C6_NormalizationTotal ==
  /\ nPc # "escaped"
  /\ nPc = "pushed" =>
       /\ Len(nPosts) = 1
       /\ nPosts[1].content.t \notin {"undefined", "null"}
       /\ nPosts[1].reasoning.t \notin {"undefined", "null"}

\* C6 witness: the JSON value null, on which reading .content throws
C6_Witness ==
  /\ nPc = "pushed"
  /\ nText = <<"null">>
  /\ nPosts[1].content = JsStr(<<"null">>)

\* C7: a response that is neither valid JSON nor contains a fenced block
\* with a valid JSON object is emitted whole, with the default reasoning.
C7_FallbackIsRawText ==
  ( /\ nPc = "pushed"
    /\ ~JSONParse(nText).ok
    /\ ~\E i, k, e \in Positions(nText) : FencedObjectAt(nText, i, k, e) )
  => /\ nPosts[1].content = JsStr(nText)
     /\ nPosts[1].reasoning = JsStr(<<"Generated using AI optimization strategies">>)

\* C7 witness: a fenced block whose body is not valid JSON, inside prose
C7_Witness ==
  /\ nPc = "pushed"
  /\ nText = Prose \o <<Newline>> \o Fenced(<<JsonTag>>, <<Newline>>, ObjBad)
               \o <<Newline>> \o Prose
  /\ nPosts[1].content = JsStr(nText)

\* C8: with no extracted page or no selected platform no run starts (so no
\* generateText call is issued), and the rejected call changes nothing but
\* the toast: generatedPosts, isGenerating, progress and the store are as
\* before.
C8_RejectedGenerateChangesNothing ==
  [][/\ (gen.pc = "idle" /\ gen'.pc # "idle")
          => (websiteData # Null /\ selectedPlatforms # <<>>)
     /\ (toast' = GenerateRejectedToast /\ toast # GenerateRejectedToast)
          => UNCHANGED <<generatedPosts, isGenerating, progress, currentStep, timers,
                         gen, storeVars>>]_vars

\* C8 witness: generatePosts was rejected for an empty selection
C8_Witness ==
  /\ toast = GenerateRejectedToast
  /\ selectedPlatforms = <<>>
  /\ websiteData # Null
  /\ gen.pc = "idle"
  /\ ~isGenerating

\* C9 as stated: when the scrape fails, websiteData is what it was when
\* extractWebsiteData was invoked.
C9_FailedExtractionKeepsPage ==
  [][(ext.pc = "scraping" /\ ext'.pc = "idle" /\ toast' = ExtractFailedToast)
       => websiteData' = ext.before]_vars

\* C10: with a URL that is empty after trimming no extraction starts (no
\* project is created, no scrape is issued), and the rejected call changes
\* nothing but the toast.
C10_RejectedExtractChangesNothing ==
  [][/\ (ext.pc = "idle" /\ ext'.pc # "idle") => Trim(websiteUrl) # <<>>
     /\ (toast' = ExtractRejectedToast /\ toast # ExtractRejectedToast)
          => UNCHANGED <<websiteData, isExtracting, progress, currentStep, timers,
                         projects, currentProject, ext, storeVars>>]_vars

\* C10 witness: extractWebsiteData was rejected for a URL of whitespace
C10_Witness ==
  /\ toast = ExtractRejectedToast
  /\ websiteUrl = <<Space>>
  /\ ext.pc = "idle"
  /\ ~isExtracting

ChatFailedToast == "Failed to get AI response"

\* a sendChatMessage call passes its guard and awaits generateText
ChatTurnStarts == NoChatInFlight /\ chat'.pc = "ai"

\* the awaited generateText call of a turn resolves
ChatReplyArrives == chat.pc = "ai" /\ chat'.pc \in {"saveUser", "done"}

\* the awaited generateText call of a turn rejects
ChatCallFails == chat.pc = "ai" /\ chat'.pc = "failed"

IsPrefixOf(a, b) == Len(a) <= Len(b) /\ SubSeq(b, 1, Len(a)) = a

\* C11 as stated: chatMessages is append-only (every step keeps the earlier
\* messages as a prefix), and when the reply of a turn arrives chatMessages
\* is the history from before the turn, then the user message, then the
\* reply.
C11_ChatAppendOnly ==
  [][/\ IsPrefixOf(chatMessages, chatMessages')
     /\ ChatReplyArrives =>
          /\ Len(chatMessages') = Len(chat.before) + 2
          /\ SubSeq(chatMessages', 1, Len(chat.before) + 1)
               = Append(chat.before, chat.userMessage)
          /\ chatMessages'[Len(chatMessages')].role = "assistant"]_vars

\* C11 as amended: the steps of sendChatMessage only append: the start of a
\* turn appends the user message (the text of chatInput) at the end, the
\* arrival of the reply appends exactly one assistant message at the end,
\* no other step of a turn changes chatMessages, and a turn awaits
\* generateText exactly once.  (createNewProject and loadProject replace
\* chatMessages as a whole, also while a turn is in flight.)
C11_ChatTurnAppends ==
  [][/\ ChatTurnStarts =>
          chatMessages' = Append(chatMessages, [role |-> "user", content |-> chatInput])
     /\ ChatReplyArrives =>
          /\ Len(chatMessages') = Len(chatMessages) + 1
          /\ SubSeq(chatMessages', 1, Len(chatMessages)) = chatMessages
          /\ chatMessages'[Len(chatMessages')].role = "assistant"
          /\ chatMessages'[Len(chatMessages')].content \in ChatReplies
     /\ (chat' # chat /\ ~ChatTurnStarts /\ ~ChatReplyArrives) =>
          chatMessages' = chatMessages
     /\ chat'.pc = "ai" => (NoChatInFlight \/ chat.pc = "ai")
     /\ (chat.pc = "ai" /\ chat' # chat) => chat'.pc # "ai"]_vars

\* C11 witness: a turn has ended with the user message and its reply, in
\* this order, as the whole history
C11_Witness ==
  /\ chat.pc = "done"
  /\ ~isChatting
  /\ Len(chatMessages) = 2
  /\ chatMessages[1] = [role |-> "user", content |-> <<"Make it punchier">>]
  /\ chatMessages[2].role = "assistant"

\* C12 as stated: when the AI call of a turn fails, chatMessages equals the
\* history from before the turn.
C12_FailedTurnRestoresHistory ==
  [][ChatCallFails => chatMessages' = chat.before]_vars

\* C12 as amended: when the AI call of a turn fails, the error toast is
\* shown, no message is appended or removed in that step (the user message
\* appended at the start of the turn stays), chatInput stays as it is,
\* nothing is written to the store and isChatting is false again.
C12_FailedTurnKeepsUserMessage ==
  [][ChatCallFails =>
       /\ toast' = ChatFailedToast
       /\ chatMessages' = chatMessages
       /\ chatInput' = chatInput
       /\ ~isChatting'
       /\ UNCHANGED storeVars]_vars

\* C12 witness: after a failed turn the user message is the last message
C12_Witness ==
  /\ chat.pc = "failed"
  /\ toast = ChatFailedToast
  /\ ~isChatting
  /\ chatMessages = <<[role |-> "user", content |-> <<"Make it punchier">>]>>

\* C13: with a message that is empty after trimming, or with no extracted
\* page, no turn starts (no generateText call is awaited), and the call
\* that returns changes nothing: chatMessages, chatInput, isChatting, the
\* toast and the store are as before.
C13_RejectedChatChangesNothing ==
  [][/\ ChatTurnStarts => (Trim(chatInput) # <<>> /\ websiteData # Null)
     /\ (chat'.pc = "returned" /\ chat.pc # "returned") =>
          UNCHANGED <<chatMessages, chatInput, isChatting, toast, storeVars>>]_vars

\* C13 witness: a call returned with a message typed but no page (a new
\* project was created after typing)
C13_Witness ==
  /\ chat.pc = "returned"
  /\ Trim(chatInput) # <<>>
  /\ websiteData = Null
  /\ ~isChatting

ExtractSucceededToast == "Website content extracted successfully!"

\* the write a handler awaited is rejected: the handler ends, the store is
\* as before
GenerateSaveRejected == gen.pc = "saving" /\ gen'.pc = "idle" /\ dbPosts' = dbPosts
ExtractSaveRejected == ext.pc = "saving" /\ ext'.pc = "idle" /\ dbProjects' = dbProjects
ToggleSaveRejected == tog.pc = "saving" /\ tog'.pc = "idle" /\ dbProjects' = dbProjects
ChatSaveRejected ==
  chat.pc \in {"saveUser", "saveAssistant"} /\ chat'.pc = "done" /\ dbMessages' = dbMessages

\* C14: a rejected store write leaves the new in-memory result in place and
\* the handler ends as a success: generatedPosts holds the posts of the
\* run and the success toast is shown; websiteData holds the extracted
\* page and the success toast is shown; selectedPlatforms holds the
\* toggled selection and chatMessages ends with the user message and its
\* reply, with no error toast; the busy flags are false again.
C14_SaveFailureKeepsResult ==
  [][/\ GenerateSaveRejected =>
          /\ generatedPosts' = gen.posts
          /\ toast' = GenerateSucceededToast
          /\ ~isGenerating'
     /\ ExtractSaveRejected =>
          /\ websiteData' = ext.websiteInfo
          /\ toast' = ExtractSucceededToast
          /\ ~isExtracting'
     /\ ToggleSaveRejected =>
          /\ selectedPlatforms' = tog.newPlatforms
          /\ toast' = toast
     /\ ChatSaveRejected =>
          /\ Len(chatMessages') >= 2
          /\ SubSeq(chatMessages', Len(chatMessages') - 1, Len(chatMessages'))
               = <<chat.userMessage, chat.assistantMessage>>
          /\ toast' = toast
          /\ ~isChatting']_vars

\* C14 witness: a run under a project has ended as a success with its posts
\* shown and none of them stored
C14_Witness ==
  /\ gen.pc = "idle"
  /\ currentProject # Null
  /\ toast = GenerateSucceededToast
  /\ Len(generatedPosts) = 2
  /\ dbPosts = <<>>

\* C15 as stated: generatedPosts, as generatePosts publishes it and as
\* loadProject shows it for a project, holds at most one post per platform.
C15_OnePostPerPlatform ==
  \A j, k \in 1..Len(generatedPosts) :
    j # k => generatedPosts[j].platform # generatedPosts[k].platform

\* deleteProject has just succeeded for the project del'.projectId
DeleteSucceeds == del.pc = "deleting" /\ del'.pc = "deleted"

\* C16 as stated: once deleteProject(P) has succeeded the store holds no
\* generatedPosts record and no chatMessages record whose projectId is P.
C16_DeleteCascades ==
  [][DeleteSucceeds =>
       /\ \A k \in 1..Len(dbPosts') : dbPosts'[k].projectId # del.projectId
       /\ \A k \in 1..Len(dbMessages') : dbMessages'[k].projectId # del.projectId]_vars

\* extractWebsiteData has just ended as a success
ExtractionSucceeds ==
  ext.pc \in {"scraping", "saving"} /\ ext'.pc = "idle" /\ toast' = ExtractSucceededToast

\* C17 as stated: an extraction invoked with no current project creates one,
\* and when an extraction succeeds (its store write, if any, not rejected)
\* the stored website fields of the current project are those of the
\* extracted page, also when that extraction created the project.
C17_ExtractionUpdatesStoredProject ==
  [][/\ (ext.pc = "idle" /\ ext'.pc # "idle" /\ currentProject = Null)
          => ext'.pc = "creating"
     /\ (ExtractionSucceeds /\ ~ExtractSaveRejected /\ currentProject' # Null)
          => /\ dbProjects'[currentProject'.id] # Null
             /\ dbProjects'[currentProject'.id].site = websiteData']_vars

\* generateText has just been called for the platform at gen'.i
AiCallIssued == gen'.pc = "ai" /\ (gen.pc # "ai" \/ gen'.i # gen.i)

Resolves(platform) == platform \in PlatformIds

\* C18 as stated: generatePosts issues no AI call and emits no post for a
\* selected id that is not in PLATFORMS, and the run publishes one post for
\* each of the other selected ids.
C18_UnresolvablePlatformSkipped ==
  [][/\ AiCallIssued => Resolves(gen'.selectedPlatforms[gen'.i])
     /\ RunPublishes =>
          /\ Len(generatedPosts') = Len(SelectSeq(gen.selectedPlatforms, Resolves))
          /\ \A k \in 1..Len(generatedPosts') :
               generatedPosts'[k].platform = SelectSeq(gen.selectedPlatforms, Resolves)[k]]_vars

Range(seq) == {seq[k] : k \in 1..Len(seq)}

NoDuplicate(seq) == \A j, k \in 1..Len(seq) : j # k => seq[j] # seq[k]

Without(seq, id) == LET Other(x) == x # id IN SelectSeq(seq, Other)

\* togglePlatform has just changed the selection
PlatformToggled == selectedPlatforms' # selectedPlatforms

\* C19: togglePlatform(id) removes id when it is selected and otherwise
\* appends it at the end; it creates no duplicate, keeps the other ids in
\* their relative order, and toggling id once more gives the set of ids
\* selected before.
C19_ToggleKeepsInsertionOrder ==
  [][PlatformToggled =>
       \E id \in PlatformIds :
         /\ IF id \in Range(selectedPlatforms)
            THEN selectedPlatforms' = Without(selectedPlatforms, id)
            ELSE selectedPlatforms' = Append(selectedPlatforms, id)
         /\ NoDuplicate(selectedPlatforms) => NoDuplicate(selectedPlatforms')
         /\ Without(selectedPlatforms', id) = Without(selectedPlatforms, id)
         /\ Range(Toggled(selectedPlatforms', id)) = Range(selectedPlatforms)]_vars

\* C19 witness: twitter was selected between producthunt and linkedin and
\* has been toggled off; the other two are in the order they had
C19_Witness ==
  /\ selectedPlatforms = <<"producthunt", "linkedin">>
  /\ tog.pc = "saving"
  /\ tog.currentProject.selectedPlatforms # Null
  /\ tog.currentProject.selectedPlatforms.ids = <<"producthunt", "twitter", "linkedin">>

\* C20: the generateText calls of a run are issued one at a time: while a
\* call is in flight every earlier call of the run has returned and given
\* its post, the call for the next platform is issued in the step in which
\* the call before it returns, and a run starts only while isGenerating is
\* false, which it is exactly while no run is in flight.
C20_AiCallsSequential ==
  [][/\ gen'.pc = "ai" =>
          /\ Len(gen'.calls) = Len(gen'.posts) + 1
          /\ gen'.i = Len(gen'.calls)
          /\ gen'.calls[gen'.i] = gen'.selectedPlatforms[gen'.i]
     /\ (AiCallIssued /\ gen.pc = "ai") =>
          /\ gen'.i = gen.i + 1
          /\ Len(gen'.posts) = Len(gen.posts) + 1
     /\ (gen.pc = "idle" /\ gen'.pc # "idle") => ~isGenerating
     /\ isGenerating' <=> gen'.pc # "idle"]_vars

\* C20 witness: the call for the second platform is in flight, the first
\* has returned and given its post
C20_Witness ==
  /\ gen.pc = "ai"
  /\ isGenerating
  /\ gen.i = 2
  /\ gen.calls = <<"producthunt", "twitter">>
  /\ Len(gen.posts) = 1
  /\ gen.posts[1].platform = "producthunt"

\* a generatePosts run with a current project has just ended as a success
SavingRunSucceeds ==
  gen.pc = "saving" /\ gen'.pc = "idle" /\ toast' = GenerateSucceededToast

\* the last records of the store are those of the posts of the run, in order
RunRecordsCreated ==
  /\ Len(dbPosts') >= Len(gen.posts)
  /\ \A k \in 1..Len(gen.posts) :
       dbPosts'[Len(dbPosts') - Len(gen.posts) + k]
         = PostRecord(gen.posts[k], gen.currentProject.id)

\* C21 as stated: no step updates or deletes a stored post, and a run with
\* a current project that ends as a success has created one record for each
\* post it emitted.
C21_SuccessfulRunStoresEveryPost ==
  [][/\ IsPrefixOf(dbPosts, dbPosts')
     /\ SavingRunSucceeds => RunRecordsCreated]_vars

\* the create a run awaited is accepted: the store has changed
GenerateSaveAccepted == gen.pc = "saving" /\ dbPosts' # dbPosts

\* C21 amended: no step updates or deletes a stored post, every accepted
\* create adds the record of the post it was issued for at the end, and a
\* run with a current project that ends with its last create accepted has
\* created one record for each post it emitted.
C21_AcceptedSavesStoreEveryPost ==
  [][/\ IsPrefixOf(dbPosts, dbPosts')
     /\ GenerateSaveAccepted =>
          dbPosts' = Append(dbPosts, PostRecord(gen.posts[gen.k], gen.currentProject.id))
     /\ (SavingRunSucceeds /\ GenerateSaveAccepted) => RunRecordsCreated]_vars

\* C21 witness: a second run for producthunt under project 1 has saved its
\* post: the store holds two producthunt records of project 1
C21_Witness ==
  /\ gen.pc = "idle"
  /\ toast = GenerateSucceededToast
  /\ currentProject # Null
  /\ Len(dbPosts) = 2
  /\ \A k \in 1..2 : dbPosts[k].projectId = 1 /\ dbPosts[k].platform = "producthunt"

\* the scrape has just resolved and the page has been set (line 1630)
PageExtracted == ext.pc = "scraping" /\ ext'.pc \in {"saving", "idle"} /\ toast' # ExtractFailedToast

HasText(v) == v.t = "str" /\ v.s # <<>>

\* the page the claim describes for a scrape result
PageOf(url, result) ==
  [url |-> url,
   title |-> IF HasText(result.title) THEN result.title ELSE JsStr(<<"Untitled">>),
   description |-> IF HasText(result.description) THEN result.description ELSE JsStr(<<>>),
   content |-> result.markdown]

\* C22: when the scrape resolves, websiteData becomes the page made of the
\* URL the call was invoked with and the scrape result alone: the scraped
\* title, or "Untitled" when there is none (absent or empty), the scraped
\* description or the empty string, the scraped content; nothing of the
\* previous page is kept.
C22_ExtractedPageFromScrape ==
  [][PageExtracted =>
       /\ \E result \in PageScrapes : websiteData' = PageOf(ext.websiteUrl, result)
       /\ websiteData'.title.t = "str" /\ websiteData'.title.s # <<>>
       /\ websiteData'.description.t = "str"]_vars

\* C22 witness: the page of acme.io, with title and description, was on
\* screen and stored, and the scrape of another URL that returned an empty
\* title has replaced it
C22_Witness ==
  /\ websiteData # Null
  /\ websiteData.url = <<"https://beta.dev">>
  /\ websiteData.title = JsStr(<<"Untitled">>)
  /\ websiteData.description = JsStr(<<"Gadgets">>)
  /\ ext.pc = "saving"
  /\ ext.before = AcmePage

\* a step of the generatePosts run in flight
RunSteps == gen.pc # "idle" /\ gen' # gen

\* C23: a generatePosts run changes generatedPosts in one step only, the one
\* that follows the last generateText call, every call of the run having
\* succeeded, and it writes to the store only after that step; the step in
\* which a call fails ends the run with generatedPosts and the stored posts
\* as they were.
C23_PostsReplacedOnlyAtEndOfRun ==
  [][/\ (RunSteps /\ generatedPosts' # generatedPosts) =>
          /\ RunPublishes
          /\ gen.i = Len(gen.selectedPlatforms)
          /\ gen.calls = gen.selectedPlatforms
          /\ Len(generatedPosts') = Len(gen.selectedPlatforms)
     /\ (RunSteps /\ dbPosts' # dbPosts) => gen.pc = "saving"
     /\ (RunSteps /\ gen.pc = "saving") =>
          generatedPosts' = generatedPosts /\ gen'.pc \in {"saving", "idle"}
     /\ AiCallFails =>
          /\ gen'.pc = "idle"
          /\ generatedPosts' = generatedPosts
          /\ dbPosts' = dbPosts]_vars

\* C23 witness: a call of a second run failed after the first run had
\* published and saved its post: that post is still the one shown and the
\* only one stored
C23_Witness ==
  /\ toast = GenerateFailedToast
  /\ gen.pc = "idle"
  /\ currentProject # Null
  /\ Len(generatedPosts) = 1
  /\ Len(dbPosts) = 1
  /\ dbPosts[1] = PostRecord(generatedPosts[1], currentProject.id)

\* loadProject has just put the stored posts of load.project on screen
PostsLoaded == load.pc = "posts" /\ load'.pc = "messages" /\ generatedPosts' # generatedPosts

\* C24 as stated: the posts a run publishes go into the view of the project
\* the run was started under, and the posts loadProject shows are put into
\* the view of the project they were listed for: in the step that sets
\* generatedPosts the current project, when there is one, is that project.
C24_PostsBelongToCurrentProject ==
  [][/\ (RunPublishes /\ gen.currentProject # Null /\ currentProject' # Null) =>
          currentProject'.id = gen.currentProject.id
     /\ (PostsLoaded /\ currentProject' # Null) =>
          currentProject'.id = load.project.id]_vars

\* C25 as stated: every assistant message in chatMessages comes right after
\* a user message.
C25_ReplyFollowsItsQuestion ==
  \A k \in 1..Len(chatMessages) :
    chatMessages[k].role = "assistant" =>
      k > 1 /\ chatMessages[k - 1].role = "user"

\* the stored records of a project as loadProject shows them
StoredPostsOf(projectId) ==
  [k \in 1..Len(ListPosts(projectId)) |-> LoadedPost(ListPosts(projectId)[k])]

StoredMessagesOf(projectId) ==
  [k \in 1..Len(ListMessages(projectId)) |-> LoadedMessage(ListMessages(projectId)[k])]

\* C26 as stated: when loadProject(P) has listed P's posts, generatedPosts
\* is P's stored posts, or empty when the list call failed; when it
\* completes, chatMessages is P's stored messages, or empty when the list
\* call failed, and websiteData is P's stored page, or null when P has none.
C26_LoadShowsOnlyStoredData ==
  [][/\ (load.pc = "posts" /\ load'.pc = "messages") =>
          generatedPosts' \in {StoredPostsOf(load.project.id), <<>>}
     /\ (load.pc = "messages" /\ load'.pc = "idle") =>
          /\ chatMessages' \in {StoredMessagesOf(load.project.id), <<>>}
          /\ websiteData' =
               IF load.project.site # Null /\ load.project.site.url # <<>>
               THEN LoadedSite(load.project.site) ELSE Null]_vars

\* C27 as stated: whenever currentProject is non-null, a project with the
\* same id is in the projects list.
C27_CurrentProjectIsListed ==
  currentProject # Null =>
    \E k \in 1..Len(projects) : projects[k].id = currentProject.id

\* C28 as stated: while an extraction or a generation run is in flight, a
\* step that changes progress or currentStep is a step of that operation
\* (the delayed reset of an earlier operation is not).
C28_ProgressOwnedByRunningOperation ==
  [][((isExtracting \/ isGenerating)
        /\ (progress' # progress \/ currentStep' # currentStep))
       => ((isExtracting /\ ext' # ext) \/ (isGenerating /\ gen' # gen))]_vars

\* C29: whenever isExtracting, isGenerating or isChatting is true it is
\* false again later, the awaited calls returning, whether they succeed
\* or fail.
C29_BusyFlagsAreReleased ==
  /\ isExtracting ~> ~isExtracting
  /\ isGenerating ~> ~isGenerating
  /\ isChatting ~> ~isChatting

\* C29 witness: a chat turn has ended in the catch after an extraction or a
\* generation run had ended, and no flag is set
C29_Witness ==
  /\ chat.pc = "failed"
  /\ toast = ChatFailedToast
  /\ timers > 0
  /\ ~isExtracting /\ ~isGenerating /\ ~isChatting

CreateFailedToast == "Failed to create new project"
DeleteFailedToast == "Failed to delete project"

\* the store call of createNewProject (called from the header button or
\* from an extraction) has just been rejected
CreateFails ==
  /\ \/ newp.pc = "creating" /\ newp'.pc = "idle"
     \/ ext.pc = "creating" /\ ext'.pc = "scraping"
  /\ toast' = CreateFailedToast

\* the store call of deleteProject has just been rejected
DeleteFails == del.pc = "deleting" /\ del'.pc = "failed" /\ toast' = DeleteFailedToast

\* C30: the step in which the store call of createNewProject or of
\* deleteProject is rejected changes none of projects, currentProject,
\* websiteUrl, websiteData, selectedPlatforms, generatedPosts and
\* chatMessages, and neither does the step that issued the call.
C30_FailedStoreCallChangesNothing ==
  [][(\/ CreateFails
      \/ DeleteFails
      \/ del'.pc = "deleting" /\ del.pc # "deleting"
      \/ ext'.pc = "creating" /\ ext.pc # "creating")
       => UNCHANGED <<projects, currentProject, websiteUrl, websiteData,
                      selectedPlatforms, generatedPosts, chatMessages>>]_vars

\* C30 witness: the delete of the current project was rejected: it is still
\* current and listed, its page still on screen
C30_Witness ==
  /\ del.pc = "failed"
  /\ toast = DeleteFailedToast
  /\ currentProject # Null
  /\ currentProject.id = del.projectId
  /\ \E k \in 1..Len(projects) : projects[k].id = del.projectId
  /\ websiteData # Null

====
